---- MODULE Spec2Model ----
(***************************************************************************)
(* Streaming response assembler of the Anthropic Go client: the transport  *)
(* reader (postStream), the event framer (parseEvents), the completion and *)
(* message interpreters (NewStreamingCompletion,                           *)
(* NewStreamingMessageRequest), the batch-from-stream call                 *)
(* (NewCompletionStreamedBatchResponse) and ResponseError.Retryable.       *)
(*                                                                         *)
(* Bytes are one-character strings, a []byte is a sequence of them.  Go    *)
(* strings that are only concatenated (fragment and block texts) are TLA+  *)
(* strings.  A Go pointer is a sequence of length 0 (nil) or 1.            *)
(***************************************************************************)
EXTENDS Integers, Sequences, FiniteSets, TLC

VARIABLES
    \* ---- framing of one byte stream delivered in one read and in two reads
    fstream, fsplit, fpc, fOne, fTwo,
    \* ---- ResponseError.Retryable applied to one error value
    qErr, qpc, qResult,
    \* ---- one streaming call: the family of its endpoint
    family,
    \* the reader goroutine of postStream: data reads done, bytes written by the
    \* server and not yet read, position, error being offered
    nreads, pending, rpc, rerr,
    \* the worker goroutine: position, events of the chunk still to handle,
    \* fragment being offered and what follows it, error being offered, the
    \* live Response, whether it returned on a terminal event
    wpc, evs, wfrag, wthen, werr, resp, terminal,
    \* the caller's context
    cancelled,
    \* the caller: position, fragments and errors received, and the
    \* accumulator and return value of NewCompletionStreamedBatchResponse
    cpc, sent, errsGot, bacc, bres,
    \* what the server has written: shape, completion texts, transport health
    gshape, gtext, gok,
    \* whether the context was cancelled with the stream in progress
    gmid,
    \* the fragments the events written so far carry, in the order written
    gfrags,
    \* whether the content block opened last has had its content_block_stop
    gclosed,
    \* ---- a second streaming call running at the same time: which of the two
    \* calls the variables above hold, and the state of the other one
    focus, other,
    \* ---- one call of a function that returns at once: the function, its
    \* arguments, the position of the call, what it returned
    pfun, pin, ppc, pout

frameVars == <<fstream, fsplit, fpc, fOne, fTwo>>
retryVars == <<qErr, qpc, qResult>>
twoVars == <<focus, other>>
pureVars == <<pfun, pin, ppc, pout>>

\* No second call, no function being called.
TwoIdle == focus = 1 /\ other = <<>>
PureIdle == pfun = "none" /\ pin = <<>> /\ ppc = "idle" /\ pout = <<>>

(***************************************************************************)
(* Bytes, the event pattern and the framer.                                *)
(***************************************************************************)
\* The literal parts of the pattern "event: (.*?)\ndata: (.*?)\n".
LitEvent ==
    <<"e","v","e","n","t",":"," ">>
LitData ==
    <<"\n","d","a","t","a",":"," ">>

\* The event types the interpreters switch on.
eventTypeCompletion ==
    <<"c","o","m","p","l","e","t","i","o","n">>
eventTypeMessageStart ==
    <<"m","e","s","s","a","g","e","_","s","t","a","r","t">>
eventTypeMessageDelta ==
    <<"m","e","s","s","a","g","e","_","d","e","l","t","a">>
eventTypeMessageStop ==
    <<"m","e","s","s","a","g","e","_","s","t","o","p">>
eventTypeContentBlockStart ==
    <<"c","o","n","t","e","n","t","_","b","l","o","c","k","_","s","t","a","r","t">>
eventTypeContentBlockDelta ==
    <<"c","o","n","t","e","n","t","_","b","l","o","c","k","_","d","e","l","t","a">>
eventTypeContentBlockStop ==
    <<"c","o","n","t","e","n","t","_","b","l","o","c","k","_","s","t","o","p">>
eventTypeError ==
    <<"e","r","r","o","r">>
eventTypePing ==
    <<"p","i","n","g">>

\* The size of the buffer handed to every Body.Read.
bufferSize == 1024

Min(a, b) == IF a <= b THEN a ELSE b

\* lit occurs in b at position i.
HasAt(b, i, lit) ==
    /\ i >= 1
    /\ i + Len(lit) - 1 <= Len(b)
    /\ SubSeq(b, i, i + Len(lit) - 1) = lit

\* The position of the first newline of b at or after from, 0 when there is none.
IndexNL(b, from) ==
    LET S == {k \in from..Len(b) : b[k] = "\n"}
    IN  IF S = {} THEN 0 ELSE CHOOSE k \in S : \A m \in S : k <= m

\* The match of the pattern that starts exactly at i: "event: ", the shortest run
\* of non-newline bytes, "\ndata: ", the shortest run of non-newline bytes, "\n".
\* Since "." matches no newline, each run ends at the first newline after it.
MatchAt(b, i) ==
    IF ~HasAt(b, i, LitEvent) THEN [ok |-> FALSE, last |-> 0, group |-> <<>>]
    ELSE LET j == IndexNL(b, i + Len(LitEvent))
         IN  IF j = 0 \/ ~HasAt(b, j, LitData)
             THEN [ok |-> FALSE, last |-> 0, group |-> <<>>]
             ELSE LET k == IndexNL(b, j + Len(LitData))
                  IN  IF k = 0 THEN [ok |-> FALSE, last |-> 0, group |-> <<>>]
                      ELSE [ok    |-> TRUE,
                            last  |-> k,
                            group |-> << SubSeq(b, i, k),
                                         SubSeq(b, i + Len(LitEvent), j - 1),
                                         SubSeq(b, j + Len(LitData), k - 1) >>]

\* re.FindAllSubmatch(b, -1): the leftmost matches, none overlapping, in order.
RECURSIVE FindAllSubmatchFrom(_, _)
FindAllSubmatchFrom(b, from) ==
    LET S == {i \in from..Len(b) : MatchAt(b, i).ok}
    IN  IF S = {} THEN <<>>
        ELSE LET i == CHOOSE x \in S : \A y \in S : x <= y
                 m == MatchAt(b, i)
             IN  <<m.group>> \o FindAllSubmatchFrom(b, m.last + 1)

FindAllSubmatch(b) == FindAllSubmatchFrom(b, 1)

\* strings.TrimSpace over the white space bytes the model writes.
WhiteSpace == {" ", "\t", "\n", "\r", "\f"}

RECURSIVE TrimLeft(_)
TrimLeft(s) ==
    IF s # <<>> /\ Head(s) \in WhiteSpace THEN TrimLeft(Tail(s)) ELSE s

RECURSIVE TrimRight(_)
TrimRight(s) ==
    IF s # <<>> /\ s[Len(s)] \in WhiteSpace
    THEN TrimRight(SubSeq(s, 1, Len(s) - 1)) ELSE s

TrimSpace(s) == TrimRight(TrimLeft(s))

\* What parseEvents makes of one match: a bad event when the match has not
\* exactly three groups, else the trimmed type and the payload as found.
GroupIsBad(group) == Len(group) # 3

EventOf(group) == [Type |-> TrimSpace(group[2]), Data |-> group[3]]

\* out = append(out, ev) for each match in turn.
RECURSIVE EventsOfPrepended(_)
EventsOfPrepended(matches) ==
    IF matches = <<>> THEN <<>>
    ELSE EventsOfPrepended(Tail(matches)) \o <<EventOf(Head(matches))>>

RECURSIVE EventsOf(_)
EventsOf(matches) ==
    IF matches = <<>> THEN <<>>
    ELSE <<EventOf(Head(matches))>> \o EventsOf(Tail(matches))

\* parseEvents(b): the events of b, or ErrBadEvent.
parseEvents(b) ==
    LET matches == FindAllSubmatch(b)
    IN  IF \E n \in 1..Len(matches) : GroupIsBad(matches[n])
        THEN [events |-> <<>>, err |-> "ErrBadEvent"]
        ELSE [events |-> EventsOf(matches), err |-> "nil"]

(***************************************************************************)
(* The wire: an event is written as "event: <type>\ndata: <payload>\n\n".  *)
(***************************************************************************)
Wire(type, data) == LitEvent \o type \o LitData \o data \o <<"\n", "\n">>

RECURSIVE WireAll(_)
WireAll(es) ==
    IF es = <<>> THEN <<>>
    ELSE Wire(Head(es).Type, Head(es).Data) \o WireAll(Tail(es))

\* Payload texts of the model's streams.
TxtMessageStart ==
    <<"{","\"","i","d","\"",":","\"","m","\"",",","\"","c","o","n","t","e","n","t","\"",":","[","]","}">>
TxtBlockStartA ==
    <<"{","\"","i","n","d","e","x","\"",":","0",",","\"","c","o","n","t","e","n","t","_","b","l","o","c","k","\"",":","{","\"","t","e","x","t","\"",":","\"","a","\"","}","}">>
TxtBlockStartEmpty ==
    <<"{","\"","i","n","d","e","x","\"",":","1",",","\"","c","o","n","t","e","n","t","_","b","l","o","c","k","\"",":","{","\"","t","e","x","t","\"",":","\"","\"","}","}">>
TxtIndexOnly ==
    <<"{","\"","i","n","d","e","x","\"",":","0","}">>
TxtDeltaB ==
    <<"{","\"","i","n","d","e","x","\"",":","0",",","\"","d","e","l","t","a","\"",":","{","\"","t","e","x","t","\"",":","\"","b","\"","}","}">>
TxtDeltaC ==
    <<"{","\"","i","n","d","e","x","\"",":","1",",","\"","d","e","l","t","a","\"",":","{","\"","t","e","x","t","\"",":","\"","c","\"","}","}">>
TxtStartBadUsage ==
    <<"{","\"","c","o","n","t","e","n","t","\"",":","[","]",",","\"","u","s","a","g","e","\"",":","5","}">>
TxtMessageDelta ==
    <<"{","\"","s","t","o","p","_","r","e","a","s","o","n","\"",":","\"","e","n","d","_","t","u","r","n","\"","}">>
TxtEmptyObject ==
    <<"{","}">>
TxtError ==
    <<"{","\"","e","r","r","o","r","\"",":","{","\"","t","y","p","e","\"",":","\"","o","v","e","r","l","o","a","d","e","d","_","e","r","r","o","r","\"",",","\"","m","e","s","s","a","g","e","\"",":","\"","x","\"","}","}">>
TxtErrorWithCode ==
    <<"{","\"","e","r","r","o","r","\"",":","{","\"","t","y","p","e","\"",":","\"","i","n","v","a","l","i","d","_","r","e","q","u","e","s","t","_","e","r","r","o","r","\"",",","\"","m","e","s","s","a","g","e","\"",":","\"","y","\"",",","\"","c","o","d","e","\"",":","7","}","}">>
TxtNotJSON ==
    <<"o","o","p","s">>
TxtHello ==
    <<"{","\"","c","o","m","p","l","e","t","i","o","n","\"",":","\"","H","e","l","l","o","\"",",","\"","s","t","o","p","_","r","e","a","s","o","n","\"",":","n","u","l","l","}">>
TxtWorld ==
    <<"{","\"","c","o","m","p","l","e","t","i","o","n","\"",":","\""," ","w","o","r","l","d","\"",",","\"","s","t","o","p","_","r","e","a","s","o","n","\"",":","n","u","l","l","}">>
TxtStop ==
    <<"{","\"","c","o","m","p","l","e","t","i","o","n","\"",":","\"","\"",",","\"","s","t","o","p","_","r","e","a","s","o","n","\"",":","\"","s","t","o","p","_","s","e","q","u","e","n","c","e","\"","}">>
TypeUnknown ==
    <<"b","o","g","u","s">>

(***************************************************************************)
(* JSON.  A payload text parses to a document: every key the interpreters  *)
(* read is a sequence, empty when the key is absent and holding the value  *)
(* when it is present; a string-or-null value is itself a sequence, empty  *)
(* for null.  Texts that are not JSON parse to an invalid document.  A     *)
(* usage key holding a number (usage_bad) is a value json.Unmarshal cannot  *)
(* store in the usage field of a Response: it skips the key, stores the    *)
(* other keys and returns an UnmarshalTypeError.                           *)
(***************************************************************************)
EmptyDoc ==
    [valid |-> TRUE, id |-> <<>>, content |-> <<>>, stop_reason |-> <<>>,
     stop_sequence |-> <<>>, usage |-> <<>>, index |-> <<>>, delta |-> <<>>,
     content_block |-> <<>>, completion |-> <<>>, error |-> <<>>,
     usage_bad |-> FALSE]

ParseJSON(data) ==
    CASE data = TxtMessageStart ->
            [EmptyDoc EXCEPT !.id = <<"m">>, !.content = << <<>> >>]
      [] data = TxtStartBadUsage ->
            [EmptyDoc EXCEPT !.content = << <<>> >>, !.usage_bad = TRUE]
      [] data = TxtBlockStartA ->
            [EmptyDoc EXCEPT !.index = <<0>>, !.content_block = <<[text |-> "a"]>>]
      [] data = TxtBlockStartEmpty ->
            [EmptyDoc EXCEPT !.index = <<1>>, !.content_block = <<[text |-> ""]>>]
      [] data = TxtIndexOnly ->
            [EmptyDoc EXCEPT !.index = <<0>>]
      [] data = TxtDeltaB ->
            [EmptyDoc EXCEPT !.index = <<0>>, !.delta = <<[text |-> "b"]>>]
      [] data = TxtDeltaC ->
            [EmptyDoc EXCEPT !.index = <<1>>, !.delta = <<[text |-> "c"]>>]
      [] data = TxtMessageDelta ->
            [EmptyDoc EXCEPT !.stop_reason = << <<"end_turn">> >>]
      [] data = TxtEmptyObject -> EmptyDoc
      [] data = TxtError ->
            [EmptyDoc EXCEPT
                !.error = <<[type |-> "overloaded_error", message |-> "x", code |-> 0]>>]
      [] data = TxtErrorWithCode ->
            [EmptyDoc EXCEPT
                !.error = <<[type |-> "invalid_request_error", message |-> "y", code |-> 7]>>]
      [] data = TxtHello ->
            [EmptyDoc EXCEPT !.completion = <<"Hello">>, !.stop_reason = << <<>> >>]
      [] data = TxtWorld ->
            [EmptyDoc EXCEPT !.completion = <<" world">>, !.stop_reason = << <<>> >>]
      [] data = TxtStop ->
            [EmptyDoc EXCEPT !.completion = <<"">>,
                             !.stop_reason = << <<"stop_sequence">> >>]
      [] OTHER -> [EmptyDoc EXCEPT !.valid = FALSE]

(***************************************************************************)
(* Error values.                                                           *)
(***************************************************************************)
MkErr(kind, type, message, raw) ==
    [kind |-> kind, Err |-> [Type |-> type, Message |-> message, Code |-> 0], raw |-> raw]

NilErr == MkErr("nil", "", "", <<>>)
ErrBadEvent == MkErr("ErrBadEvent", "", "", <<>>)
\* ctx.Err() of a cancelled context.
CtxErr == MkErr("context.Canceled", "", "", <<>>)
\* A failure of Body.Read other than io.EOF.
TransportErr == MkErr("transport", "", "", <<>>)
\* The error json.Unmarshal returns for a payload that is not JSON.
JSONErr == MkErr("json", "", "", <<>>)
\* errors.New(string(e.Data))
RawErr(data) == MkErr("errors.New", "", "", data)

\* json.Unmarshal(e.Data, &ResponseError{}): the error object's type and message.
UnmarshalResponseError(doc) ==
    IF doc.error = <<>> THEN MkErr("ResponseError", "", "", <<>>)
    ELSE [MkErr("ResponseError", doc.error[1].type, doc.error[1].message, <<>>)
            EXCEPT !.Err.Code = doc.error[1].code]

(***************************************************************************)
(* The records the payloads decode to.                                     *)
(***************************************************************************)
\* &Response{} of the completion family.
ZeroResponse == [Completion |-> "", StopReason |-> <<>>, Stop |-> <<>>]

\* json.Unmarshal(e.Data, resp) with resp a fresh completion Response.
UnmarshalResponse(doc) ==
    [Completion |-> IF doc.completion = <<>> THEN "" ELSE doc.completion[1],
     StopReason |-> IF doc.stop_reason = <<>> THEN <<>> ELSE doc.stop_reason[1],
     Stop       |-> <<>>]

\* &v3.Response{}: Content holds pointers to content blocks.
ZeroV3Response ==
    [ID |-> "", Content |-> <<>>, StopReason |-> <<>>, StopSequence |-> <<>>,
     Usage |-> <<>>]

\* json.Unmarshal(e.Data, r) into an existing v3.Response: a key that is
\* present overwrites its field, an absent key leaves the field as it is.
UnmarshalV3ResponseInto(r, doc) ==
    [ID           |-> IF doc.id = <<>> THEN r.ID ELSE doc.id[1],
     Content      |-> IF doc.content = <<>> THEN r.Content ELSE doc.content[1],
     StopReason   |-> IF doc.stop_reason = <<>> THEN r.StopReason ELSE doc.stop_reason[1],
     StopSequence |-> IF doc.stop_sequence = <<>> THEN r.StopSequence
                      ELSE doc.stop_sequence[1],
     Usage        |-> IF doc.usage = <<>> THEN r.Usage ELSE doc.usage]

\* A *v3.MessageContent from a JSON object, nil when the key is absent.
BlockPtr(field) == IF field = <<>> THEN <<>> ELSE <<[Text |-> field[1].text]>>

\* json.Unmarshal(e.Data, &v3Event{})
UnmarshalV3Event(doc) ==
    [Index        |-> IF doc.index = <<>> THEN 0 ELSE doc.index[1],
     Delta        |-> BlockPtr(doc.delta),
     ContentBlock |-> BlockPtr(doc.content_block)]

(***************************************************************************)
(* The interpreters: what the body of the worker's switch does with one    *)
(* event.  The outcome says how the worker goes on: "next" (the next event *)
(* of the chunk), "frag" (offer frag on the fragment channel, then go on   *)
(* as then says), "err" (offer err on the error channel and return),       *)
(* "return" (the terminal event) or "panic" (a run-time fault).            *)
(***************************************************************************)
Outcome(act, r, frag, then, err) ==
    [act |-> act, resp |-> r, frag |-> frag, then |-> then, err |-> err]

\* resp.Content[len(resp.Content)-1].Text += text
AppendDeltaOverwrite(r, text) ==
    [r EXCEPT !.Content[Len(r.Content)] = <<[Text |-> text]>>]

AppendDelta(r, text) ==
    [r EXCEPT !.Content[Len(r.Content)] = <<[Text |-> r.Content[Len(r.Content)][1].Text \o text]>>]

\* *resp = *delta
MergeMessageDeltaWhole(r, delta) == delta

\* resp.StopReason, resp.StopSequence, resp.Usage = those of the decoded delta
MergeMessageDelta(r, delta) ==
    [r EXCEPT !.StopReason = delta.StopReason,
              !.StopSequence = delta.StopSequence,
              !.Usage = delta.Usage]

\* case eventTypeError sending the payload as it came, decoded or not.
ErrorEventRawOnly(r, e) == Outcome("err", r, "", "next", RawErr(e.Data))

\* case eventTypeError of both workers.
ErrorEvent(r, e) ==
    LET doc == ParseJSON(e.Data)
    IN  IF ~doc.valid THEN Outcome("err", r, "", "next", RawErr(e.Data))
        ELSE Outcome("err", r, "", "next", UnmarshalResponseError(doc))

\* The default case of both workers: errCh <- ErrBadEvent; return.
UnknownEventSkipped(r) == Outcome("next", r, "", "next", NilErr)

UnknownEvent(r) == Outcome("err", r, "", "next", ErrBadEvent)

\* case eventTypePing treated as the default case.
PingEventFatal(r) == Outcome("err", r, "", "next", ErrBadEvent)

\* case eventTypePing of both workers: do nothing.
PingEvent(r) == Outcome("next", r, "", "next", NilErr)

\* The switch of NewStreamingMessageRequest on one event, r the live Response.
MessageEvent(r, e) ==
    LET doc == ParseJSON(e.Data)
        bad == Outcome("err", r, "", "next", JSONErr)
    IN  CASE e.Type = eventTypeMessageStart ->
                IF ~doc.valid THEN bad
                ELSE IF doc.usage_bad
                THEN Outcome("err", UnmarshalV3ResponseInto(r, doc), "", "next", JSONErr)
                ELSE Outcome("next", UnmarshalV3ResponseInto(r, doc), "", "next", NilErr)
          [] e.Type = eventTypeMessageDelta ->
                IF ~doc.valid \/ doc.usage_bad THEN bad
                ELSE Outcome("next",
                             MergeMessageDelta(r, UnmarshalV3ResponseInto(ZeroV3Response, doc)),
                             "", "next", NilErr)
          [] e.Type = eventTypeMessageStop ->
                Outcome("return", r, "", "next", NilErr)
          [] e.Type = eventTypeContentBlockStart ->
                IF ~doc.valid THEN bad
                ELSE LET block == UnmarshalV3Event(doc)
                         appended == [r EXCEPT !.Content = Append(r.Content, block.ContentBlock)]
                     IN  IF block.ContentBlock = <<>>
                         THEN Outcome("panic", appended, "", "next", NilErr)
                         ELSE Outcome("frag", appended, block.ContentBlock[1].Text, "next", NilErr)
          [] e.Type = eventTypeContentBlockDelta ->
                IF ~doc.valid THEN bad
                ELSE LET delta == UnmarshalV3Event(doc)
                     IN  IF \/ r.Content = <<>>
                            \/ r.Content[Len(r.Content)] = <<>>
                            \/ delta.Delta = <<>>
                         THEN Outcome("panic", r, "", "next", NilErr)
                         ELSE Outcome("frag", AppendDelta(r, delta.Delta[1].Text),
                                      delta.Delta[1].Text, "next", NilErr)
          [] e.Type = eventTypeContentBlockStop ->
                Outcome("next", r, "", "next", NilErr)
          [] e.Type = eventTypeError -> ErrorEvent(r, e)
          [] e.Type = eventTypePing -> PingEvent(r)
          [] OTHER -> UnknownEvent(r)

\* After respCh <- resp: on to the next event.
AfterCompletionSentGoOn(c) == "next"

\* After respCh <- resp: return when the Response carries a stop reason.
AfterCompletionSent(c) == IF c.StopReason # <<>> THEN "return" ELSE "next"

\* The switch of NewStreamingCompletion on one event.
CompletionEvent(r, e) ==
    LET doc == ParseJSON(e.Data)
    IN  CASE e.Type = eventTypeCompletion ->
                IF ~doc.valid THEN Outcome("err", r, "", "next", JSONErr)
                ELSE LET c == UnmarshalResponse(doc)
                     IN  Outcome("frag", r, c, AfterCompletionSent(c), NilErr)
          [] e.Type = eventTypeError -> ErrorEvent(r, e)
          [] e.Type = eventTypePing -> PingEvent(r)
          [] OTHER -> UnknownEvent(r)

(***************************************************************************)
(* ResponseError.Retryable.                                                *)
(***************************************************************************)
errRateLimit == "rate_limit_error"
errOverloaded == "overloaded_error"
StatusInternalServerError == 500
StatusTooManyRequests == 429

RetryableStrictlyAbove(r) ==
    \/ r.Err.Code > StatusInternalServerError
    \/ r.Err.Code = StatusTooManyRequests
    \/ r.Err.Type = errOverloaded
    \/ r.Err.Type = errRateLimit

Retryable(r) ==
    \/ r.Err.Code >= StatusInternalServerError
    \/ r.Err.Code = StatusTooManyRequests
    \/ r.Err.Type = errOverloaded
    \/ r.Err.Type = errRateLimit

\* The error values Retryable is applied to.
RetryCodes == {0, 200, 400, 401, 404, 428, 429, 430, 499, 500, 501, 503, 529}
RetryTypes == {"", "invalid_request_error", "api_error", errOverloaded, errRateLimit}
RetryErrors ==
    {[Err |-> [Type |-> t, Message |-> "x", Code |-> c]] :
        t \in RetryTypes, c \in RetryCodes}

RetryIdle == qErr = [Err |-> [Type |-> "", Message |-> "", Code |-> 0]]
             /\ qpc = "idle" /\ qResult = FALSE

RetryInit == qErr \in RetryErrors /\ qpc = "call" /\ qResult = FALSE

CallRetryable ==
    /\ qpc = "call"
    /\ qResult' = Retryable(qErr)
    /\ qpc' = "done"
    /\ UNCHANGED qErr

(***************************************************************************)
(* Framing of one stream delivered whole and delivered in two reads: each  *)
(* read is framed on its own, as the workers frame each chunk they         *)
(* receive, and the events of the reads follow each other.                 *)
(***************************************************************************)
MaxFrameEvents == 2

FrameEvents ==
    { [Type |-> eventTypePing, Data |-> TxtEmptyObject],
      [Type |-> eventTypeContentBlockDelta, Data |-> TxtDeltaB],
      [Type |-> eventTypeCompletion, Data |-> TxtHello] }

RECURSIVE SeqsUpTo(_, _)
SeqsUpTo(S, n) ==
    IF n = 0 THEN {<<>>}
    ELSE LET shorter == SeqsUpTo(S, n - 1)
         IN  shorter \cup {Append(s, e) : s \in shorter, e \in S}

FrameStreams == {WireAll(es) : es \in SeqsUpTo(FrameEvents, MaxFrameEvents) \ {<<>>}}

NoFraming == [events |-> <<>>, err |-> "nil"]

FrameIdle ==
    fstream = <<>> /\ fsplit = 0 /\ fpc = "idle" /\ fOne = NoFraming /\ fTwo = NoFraming

FrameInit ==
    /\ fstream \in FrameStreams
    /\ fsplit \in 0..Len(fstream)
    /\ fpc = "whole"
    /\ fOne = NoFraming
    /\ fTwo = NoFraming

\* The stream arrives in one read.
FrameWhole ==
    /\ fpc = "whole"
    /\ fOne' = parseEvents(fstream)
    /\ fpc' = "first"
    /\ UNCHANGED <<fstream, fsplit, fTwo>>

\* The same stream arrives in two reads, cut after fsplit bytes: the first read.
FrameFirst ==
    /\ fpc = "first"
    /\ fTwo' = parseEvents(SubSeq(fstream, 1, fsplit))
    /\ fpc' = "second"
    /\ UNCHANGED <<fstream, fsplit, fOne>>

\* The second read framed together with the bytes of the first.
FrameSecondCarrying ==
    /\ fpc = "second"
    /\ fTwo' = parseEvents(fstream)
    /\ fpc' = "done"
    /\ UNCHANGED <<fstream, fsplit, fOne>>

\* The second read: framed from its own first byte.
FrameSecond ==
    /\ fpc = "second"
    /\ LET p == parseEvents(SubSeq(fstream, fsplit + 1, Len(fstream)))
       IN  fTwo' = IF fTwo.err # "nil" THEN fTwo
                   ELSE [events |-> fTwo.events \o p.events, err |-> p.err]
    /\ fpc' = "done"
    /\ UNCHANGED <<fstream, fsplit, fOne>>


(***************************************************************************)
(* The events a server may write, per family.                              *)
(***************************************************************************)
Ev(type, data) == [Type |-> type, Data |-> data]

MessageUniverse ==
    { Ev(eventTypeMessageStart, TxtMessageStart),
      Ev(eventTypeContentBlockStart, TxtBlockStartA),
      Ev(eventTypeContentBlockStart, TxtIndexOnly),
      Ev(eventTypeContentBlockDelta, TxtDeltaB),
      Ev(eventTypeContentBlockDelta, TxtNotJSON),
      Ev(eventTypeContentBlockStop, TxtIndexOnly),
      Ev(eventTypeMessageDelta, TxtMessageDelta),
      Ev(eventTypeMessageStop, TxtEmptyObject),
      Ev(eventTypePing, TxtEmptyObject),
      Ev(eventTypeError, TxtError),
      Ev(eventTypeError, TxtNotJSON),
      Ev(TypeUnknown, TxtEmptyObject) }

CompletionUniverse ==
    { Ev(eventTypeCompletion, TxtHello),
      Ev(eventTypeCompletion, TxtWorld),
      Ev(eventTypeCompletion, TxtStop),
      Ev(eventTypeCompletion, TxtNotJSON),
      Ev(eventTypePing, TxtEmptyObject),
      Ev(eventTypeError, TxtError),
      Ev(eventTypeError, TxtNotJSON),
      Ev(TypeUnknown, TxtEmptyObject) }

Universe(f) == IF f = "message" THEN MessageUniverse ELSE CompletionUniverse

\* One event for each way a worker exits or goes on: a fragment, a terminal
\* event, a payload that does not decode, an error event, an unknown type.
LiveUniverse(f) ==
    IF f = "message"
    THEN { Ev(eventTypeContentBlockStart, TxtBlockStartA),
           Ev(eventTypeContentBlockDelta, TxtDeltaB),
           Ev(eventTypeContentBlockDelta, TxtNotJSON),
           Ev(eventTypeMessageStop, TxtEmptyObject),
           Ev(eventTypeError, TxtError) }
    ELSE { Ev(eventTypeCompletion, TxtHello),
           Ev(eventTypeCompletion, TxtStop),
           Ev(eventTypeCompletion, TxtNotJSON),
           Ev(TypeUnknown, TxtEmptyObject) }

\* Events of a well-formed message stream between message_start and message_stop.
MessageMiddle ==
    { Ev(eventTypeContentBlockStart, TxtBlockStartA),
      Ev(eventTypeContentBlockDelta, TxtDeltaB),
      Ev(eventTypeContentBlockStop, TxtIndexOnly),
      Ev(eventTypeMessageDelta, TxtMessageDelta),
      Ev(eventTypePing, TxtEmptyObject) }

\* How far the events written so far are a well-formed stream of the family:
\* "init" (nothing written), "open", "closed" (the terminal event was the last
\* one written) or "invalid".
ShapeStep(f, shape, e) ==
    IF f = "message"
    THEN CASE shape = "init" /\ e = Ev(eventTypeMessageStart, TxtMessageStart) -> "open"
           [] shape = "open" /\ e \in MessageMiddle -> "open"
           [] shape = "open" /\ e = Ev(eventTypeMessageStop, TxtEmptyObject) -> "closed"
           [] OTHER -> "invalid"
    ELSE CASE shape \in {"init", "open"}
                /\ e \in {Ev(eventTypeCompletion, TxtHello), Ev(eventTypeCompletion, TxtWorld)}
                -> "open"
           [] shape \in {"init", "open"} /\ e = Ev(eventTypeCompletion, TxtStop) -> "closed"
           [] OTHER -> "invalid"

RECURSIVE ShapeAfter(_, _, _)
ShapeAfter(f, shape, es) ==
    IF es = <<>> THEN shape ELSE ShapeAfter(f, ShapeStep(f, shape, Head(es)), Tail(es))

\* The concatenation of the completion texts of the completion events of es.
RECURSIVE CompletionTexts(_)
CompletionTexts(es) ==
    IF es = <<>> THEN ""
    ELSE (IF Head(es).Type = eventTypeCompletion /\ ParseJSON(Head(es).Data).valid
          THEN UnmarshalResponse(ParseJSON(Head(es).Data)).Completion ELSE "")
         \o CompletionTexts(Tail(es))

\* The fragment an event carries: the text of the block of a
\* content_block_start, the text of the delta of a content_block_delta, the
\* Response of a completion event; none for every other event.
FragmentOf(f, e) ==
    LET doc == ParseJSON(e.Data)
    IN  IF ~doc.valid THEN <<>>
        ELSE IF f = "message"
        THEN CASE e.Type = eventTypeContentBlockStart ->
                    IF UnmarshalV3Event(doc).ContentBlock = <<>> THEN <<>>
                    ELSE <<UnmarshalV3Event(doc).ContentBlock[1].Text>>
               [] e.Type = eventTypeContentBlockDelta ->
                    IF UnmarshalV3Event(doc).Delta = <<>> THEN <<>>
                    ELSE <<UnmarshalV3Event(doc).Delta[1].Text>>
               [] OTHER -> <<>>
        ELSE IF e.Type = eventTypeCompletion THEN <<UnmarshalResponse(doc)>> ELSE <<>>

RECURSIVE FragmentsOf(_, _)
FragmentsOf(f, es) ==
    IF es = <<>> THEN <<>> ELSE FragmentOf(f, Head(es)) \o FragmentsOf(f, Tail(es))

\* The endpoint a call posts to: both message functions post to "messages".
EndpointOf(f) == IF f = "shorthand" THEN "message" ELSE f

(***************************************************************************)
(* Bounds.                                                                 *)
(***************************************************************************)
\* Reads that return data, the one that returns io.EOF with it included.
MaxReads == 2
\* Events the server writes between two reads.
MaxChunkEvents == 2
\* Where a read may end: with the last byte written (0) or three bytes
\* before it, inside the last event's payload (3).
CutBacks == {0, 3}

(***************************************************************************)
(* State of one streaming call.                                            *)
(***************************************************************************)
streamVars ==
    <<family, nreads, pending, rpc, rerr, wpc, evs, wfrag, wthen, werr, resp,
      terminal, cancelled, cpc, sent, errsGot, bacc, bres, gshape, gtext, gok, gmid, gfrags,
      gclosed>>

ghostVars == <<gshape, gtext, gok, gmid, gfrags, gclosed>>
readerVars == <<nreads, pending, rpc, rerr>>
workerVars == <<wpc, evs, wfrag, wthen, werr, resp, terminal>>
callerVars == <<cpc, sent, errsGot, bacc, bres>>

NoReturn == [returned |-> FALSE, resp |-> <<>>, err |-> NilErr]

StreamStart(f, mode) ==
    /\ family = f
    /\ nreads = 0 /\ pending = <<>> /\ rpc = "read" /\ rerr = NilErr
    /\ wpc = "select" /\ evs = <<>> /\ wfrag = "" /\ wthen = "next" /\ werr = NilErr
    /\ resp = ZeroV3Response /\ terminal = FALSE
    /\ cancelled = FALSE
    /\ cpc = mode /\ sent = <<>> /\ errsGot = <<>>
    /\ bacc = ZeroResponse /\ bres = NoReturn
    /\ gshape = "init" /\ gtext = "" /\ gok = TRUE /\ gmid = FALSE /\ gfrags = <<>>
    /\ gclosed = FALSE

StreamIdle ==
    /\ StreamStart("none", "idle")
    /\ rpc = "read"

\* A panic in a goroutine ends the program: nothing runs after it.
Running == wpc # "panic"

(***************************************************************************)
(* The reader goroutine of postStream.                                     *)
(***************************************************************************)
\* Body.Read returns bytes and no error.  With the context cancelled the
\* bytes are dropped and ctx.Err() is offered instead; else the reader offers
\* the chunk.  Nothing looks at the bytes before the worker receives them, so
\* they are drawn when the chunk is handed over (RecvChunk).
ReadData ==
    /\ Running /\ rpc = "read" /\ nreads < MaxReads
    /\ nreads' = nreads + 1
    /\ IF cancelled
       THEN rerr' = CtxErr /\ rpc' = "sendErr"
       ELSE rerr' = rerr /\ rpc' = "sendMsg"
    /\ UNCHANGED <<family, pending, workerVars, cancelled, callerVars, ghostVars>>

\* Body.Read returns io.EOF, alone or together with bytes: what was left of
\* the last partial event and the events of some es of S, written since the
\* last read.  The switch tests io.EOF first and the count Read returned is
\* not looked at: the reader returns without offering the buffer, so those
\* bytes reach nobody, and its deferred calls close its channels and the body.
ReadEOFFrom(S) ==
    /\ Running /\ rpc = "read"
    /\ \E es \in S :
         /\ es # <<>> => nreads < MaxReads
         /\ Len(pending \o WireAll(es)) <= bufferSize
         /\ nreads' = IF es # <<>> THEN nreads + 1 ELSE nreads
         /\ gshape' = ShapeAfter(EndpointOf(family), gshape, es)
         /\ gtext' = gtext \o CompletionTexts(es)
         /\ gfrags' = gfrags \o FragmentsOf(EndpointOf(family), es)
    /\ pending' = <<>>
    /\ rpc' = "done"
    /\ UNCHANGED <<family, rerr, workerVars, cancelled, callerVars, gok, gmid, gclosed>>

\* The same, the server having written up to most events of U since the last
\* read.
ReadEOFOf(U, most) == ReadEOFFrom(SeqsUpTo(U, most))

\* The same with up to MaxChunkEvents events written since the last read.
ReadEOF(U) == ReadEOFOf(U, MaxChunkEvents)

\* Body.Read fails: the error is offered on the reader's error channel.  Bytes
\* the failing Read returned are not looked at; the model takes them as not
\* written.
ReadError ==
    /\ Running /\ rpc = "read"
    /\ rerr' = IF cancelled THEN CtxErr ELSE TransportErr
    /\ rpc' = "sendErr"
    /\ gok' = FALSE
    /\ UNCHANGED <<family, nreads, pending, workerVars, cancelled, callerVars,
                   gshape, gtext, gmid, gfrags, gclosed>>

(***************************************************************************)
(* The worker goroutine of NewStreamingMessageRequest and of               *)
(* NewStreamingCompletion.                                                 *)
(***************************************************************************)
\* Where the worker is after an event that lets it go on.
Continue(rest) == IF rest = <<>> THEN "select" ELSE "events"

\* The statement that follows errCh <- err everywhere: return.
AfterErrorSentFallThrough(rest) == Continue(rest)

AfterErrorSent(rest) == "done"

\* The worker frames the chunk b it received and starts on its events.
FrameChunk(b) ==
    LET p == parseEvents(b)
    IN  IF p.err # "nil"
        THEN /\ werr' = ErrBadEvent /\ wpc' = "sendErr" /\ evs' = <<>>
        ELSE /\ evs' = p.events /\ wpc' = Continue(p.events) /\ werr' = werr

\* case b := <-receive, the reader offering a chunk: what was left of the
\* last partial event followed by the events the server wrote since, up to
\* a cut; the bytes after the cut wait for the next read.
RecvChunkFrom(S, cuts) ==
    /\ wpc = "select" /\ rpc = "sendMsg"
    /\ \E es \in S, back \in cuts :
         LET bytes == pending \o WireAll(es)
             n == Len(bytes) - back
         IN  /\ n >= 0 /\ n <= bufferSize
             /\ back > 0 => es # <<>>
             /\ pending' = SubSeq(bytes, n + 1, Len(bytes))
             /\ gshape' = ShapeAfter(EndpointOf(family), gshape, es)
             /\ gtext' = gtext \o CompletionTexts(es)
             /\ gfrags' = gfrags \o FragmentsOf(EndpointOf(family), es)
             /\ FrameChunk(SubSeq(bytes, 1, n))
    /\ rpc' = "read"
    /\ UNCHANGED <<family, nreads, rerr, wfrag, wthen, resp, terminal,
                   cancelled, callerVars, gok, gmid, gclosed>>

\* The same, the server writing up to most events of U between two reads.
RecvChunkOf(U, most, cuts) == RecvChunkFrom(SeqsUpTo(U, most), cuts)

\* The same with up to MaxChunkEvents events written between two reads and a
\* read ending where CutBacks says.
RecvChunk(U) == RecvChunkOf(U, MaxChunkEvents, CutBacks)

\* case b := <-receive, the reader having closed the channel: b is nil.
RecvClosedChunk ==
    /\ wpc = "select" /\ rpc = "done"
    /\ FrameChunk(<<>>)
    /\ UNCHANGED <<family, readerVars, wfrag, wthen, resp, terminal,
                   cancelled, callerVars, ghostVars>>

\* A receive from the reader's error channel is ready while the reader
\* offers an error and ever after the reader's deferred close(errCh).
ErrsReadyOnlyOnSend(r) == r = "sendErr"

ErrsReady(r) == r \in {"sendErr", "done"}

\* case err = <-errs: the reader's error, or nil once the reader has closed
\* the channel.
RecvReaderErr ==
    /\ wpc = "select" /\ ErrsReady(rpc)
    /\ werr' = IF rpc = "sendErr" THEN rerr ELSE NilErr
    /\ wpc' = "sendErr"
    /\ rpc' = "done"
    /\ rerr' = NilErr
    /\ UNCHANGED <<family, nreads, pending, evs, wfrag, wthen, resp, terminal,
                   cancelled, callerVars, ghostVars>>

\* case <-ctx.Done()
CtxDone ==
    /\ wpc = "select" /\ cancelled
    /\ werr' = CtxErr
    /\ wpc' = "sendErr"
    /\ UNCHANGED <<family, readerVars, evs, wfrag, wthen, resp, terminal, cancelled,
                   callerVars, ghostVars>>

\* Whether the block opened last is closed once the worker has handled e with
\* outcome o: content_block_stop closes it, a block appended is open.
ClosedAfter(closed, r, e, o) ==
    IF e.Type = eventTypeContentBlockStop THEN TRUE
    ELSE IF Len(o.resp.Content) > Len(r.Content) THEN FALSE
    ELSE closed

\* The switch of the worker of NewStreamingShortHandMessageRequest with a
\* content_block_delta case that sends the text of the delta and leaves the
\* Response as it is.
ShortHandEventNotAccumulating(r, e) ==
    LET o == MessageEvent(r, e)
    IN  IF e.Type = eventTypeContentBlockDelta /\ o.act = "frag"
        THEN [o EXCEPT !.resp = r]
        ELSE o

\* The switch of the worker of NewStreamingShortHandMessageRequest on one
\* event, r the Response the function returned.  Each case is the statements
\* of that function's own switch, taken in their order; what it shares with
\* MessageEvent is json.Unmarshal and the shape of an outcome.
ShortHandEvent(r, e) ==
    LET doc == ParseJSON(e.Data)
    IN  IF e.Type = eventTypeMessageStart
        THEN \* json.Unmarshal(e.Data, resp) writes into the Response returned.
             IF ~doc.valid
             THEN [act |-> "err", resp |-> r, frag |-> "", then |-> "next",
                   err |-> JSONErr]
             ELSE [act |-> IF doc.usage_bad THEN "err" ELSE "next",
                   resp |-> UnmarshalV3ResponseInto(r, doc),
                   frag |-> "", then |-> "next",
                   err |-> IF doc.usage_bad THEN JSONErr ELSE NilErr]
        ELSE IF e.Type = eventTypeMessageDelta
        THEN \* var delta = &v3.Response{}; three of its fields are copied.
             IF ~doc.valid \/ doc.usage_bad
             THEN [act |-> "err", resp |-> r, frag |-> "", then |-> "next",
                   err |-> JSONErr]
             ELSE LET delta == UnmarshalV3ResponseInto(ZeroV3Response, doc)
                  IN  [act |-> "next",
                       resp |-> [ID |-> r.ID, Content |-> r.Content,
                                 StopReason |-> delta.StopReason,
                                 StopSequence |-> delta.StopSequence,
                                 Usage |-> delta.Usage],
                       frag |-> "", then |-> "next", err |-> NilErr]
        ELSE IF e.Type = eventTypeMessageStop
        THEN [act |-> "return", resp |-> r, frag |-> "", then |-> "next",
              err |-> NilErr]
        ELSE IF e.Type = eventTypeContentBlockStart
        THEN \* var block = &v3Event{}; the append comes before the read of
             \* block.ContentBlock.Text, which faults on a nil ContentBlock.
             IF ~doc.valid
             THEN [act |-> "err", resp |-> r, frag |-> "", then |-> "next",
                   err |-> JSONErr]
             ELSE LET block == UnmarshalV3Event(doc)
                      content == r.Content \o <<block.ContentBlock>>
                  IN  [act |-> IF Len(block.ContentBlock) = 0 THEN "panic" ELSE "frag",
                       resp |-> [r EXCEPT !.Content = content],
                       frag |-> IF Len(block.ContentBlock) = 0 THEN ""
                                ELSE block.ContentBlock[1].Text,
                       then |-> "next", err |-> NilErr]
        ELSE IF e.Type = eventTypeContentBlockDelta
        THEN \* var delta = &v3Event{}; resp.Content[len(resp.Content)-1] is an
             \* index out of range on an empty Content and a nil pointer when
             \* the last block is nil, as is delta.Delta when the key is absent.
             IF ~doc.valid
             THEN [act |-> "err", resp |-> r, frag |-> "", then |-> "next",
                   err |-> JSONErr]
             ELSE LET delta == UnmarshalV3Event(doc)
                      last == Len(r.Content)
                  IN  IF last = 0 \/ Len(delta.Delta) = 0
                      THEN [act |-> "panic", resp |-> r, frag |-> "",
                            then |-> "next", err |-> NilErr]
                      ELSE IF Len(r.Content[last]) = 0
                      THEN [act |-> "panic", resp |-> r, frag |-> "",
                            then |-> "next", err |-> NilErr]
                      ELSE [act |-> "frag",
                            resp |-> [r EXCEPT !.Content[last][1].Text =
                                                   @ \o delta.Delta[1].Text],
                            frag |-> delta.Delta[1].Text,
                            then |-> "next", err |-> NilErr]
        ELSE IF e.Type = eventTypeContentBlockStop
        THEN [act |-> "next", resp |-> r, frag |-> "", then |-> "next",
              err |-> NilErr]
        ELSE IF e.Type = eventTypeError
        THEN \* var errResp = &ResponseError{}; the payload itself is the error
             \* when it does not decode.
             [act |-> "err", resp |-> r, frag |-> "", then |-> "next",
              err |-> IF doc.valid THEN UnmarshalResponseError(doc)
                      ELSE MkErr("errors.New", "", "", e.Data)]
        ELSE IF e.Type = eventTypePing
        THEN [act |-> "next", resp |-> r, frag |-> "", then |-> "next",
              err |-> NilErr]
        ELSE [act |-> "err", resp |-> r, frag |-> "", then |-> "next",
              err |-> ErrBadEvent]

\* One iteration of "for _, e := range events".
HandleEvent ==
    /\ wpc = "events"
    /\ LET e == Head(evs)
           rest == Tail(evs)
           o == CASE family = "message" -> MessageEvent(resp, e)
                  [] family = "shorthand" -> ShortHandEvent(resp, e)
                  [] OTHER -> CompletionEvent(resp, e)
       IN  /\ resp' = o.resp
           /\ gclosed' = ClosedAfter(gclosed, resp, e, o)
           /\ CASE o.act = "next" ->
                     /\ wpc' = Continue(rest) /\ evs' = rest
                     /\ UNCHANGED <<wfrag, wthen, werr, terminal>>
                [] o.act = "frag" ->
                     /\ wpc' = "sendFrag" /\ evs' = rest
                     /\ wfrag' = o.frag /\ wthen' = o.then
                     /\ UNCHANGED <<werr, terminal>>
                [] o.act = "err" ->
                     /\ wpc' = "sendErr" /\ evs' = rest /\ werr' = o.err
                     /\ UNCHANGED <<wfrag, wthen, terminal>>
                [] o.act = "return" ->
                     /\ wpc' = "done" /\ evs' = rest /\ terminal' = TRUE
                     /\ UNCHANGED <<wfrag, wthen, werr>>
                [] o.act = "panic" ->
                     /\ wpc' = "panic" /\ evs' = rest
                     /\ UNCHANGED <<wfrag, wthen, werr, terminal>>
    /\ UNCHANGED <<family, readerVars, cancelled, callerVars, gshape, gtext, gok, gmid,
                   gfrags>>

\* The worker's side of a fragment received by the caller.
FragmentTaken ==
    /\ wpc = "sendFrag"
    /\ wpc' = IF wthen = "return" THEN "done" ELSE Continue(evs)
    /\ terminal' = (wthen = "return")
    /\ wfrag' = "" /\ wthen' = "next"
    /\ UNCHANGED <<evs, werr, resp>>

\* The worker's side of an error received by the caller.
ErrorTaken ==
    /\ wpc = "sendErr"
    /\ wpc' = AfterErrorSent(evs)
    /\ werr' = NilErr
    /\ UNCHANGED <<evs, wfrag, wthen, resp, terminal>>

\* Both channels of the call are closed: the worker has returned, or has
\* panicked and run its deferred closes.
BothClosed == wpc \in {"done", "panic"}

(***************************************************************************)
(* A caller that receives from both channels until both are closed.        *)
(***************************************************************************)
\* The stream is in progress: the body has not ended or failed and the worker
\* is neither returning nor offering an error.
InProgress == rpc \in {"read", "sendMsg"} /\ wpc \in {"select", "events", "sendFrag"}

Cancel ==
    /\ Running /\ ~cancelled /\ wpc # "done"
    /\ cancelled' = TRUE
    /\ gmid' = InProgress
    /\ UNCHANGED <<family, readerVars, workerVars, callerVars, gshape, gtext, gok, gfrags,
                   gclosed>>

RecvFragment ==
    /\ cpc = "select"
    /\ FragmentTaken
    /\ sent' = Append(sent, wfrag)
    /\ UNCHANGED <<family, readerVars, cancelled, cpc, errsGot, bacc, bres, ghostVars>>

RecvError ==
    /\ cpc = "select"
    /\ ErrorTaken
    /\ errsGot' = Append(errsGot, werr)
    /\ UNCHANGED <<family, readerVars, cancelled, cpc, sent, bacc, bres, ghostVars>>

(***************************************************************************)
(* A caller that ranges over the fragment channel until it is closed and   *)
(* only then over the error channel.                                       *)
(***************************************************************************)
RangeFragment ==
    /\ cpc = "rangeFrags"
    /\ FragmentTaken
    /\ sent' = Append(sent, wfrag)
    /\ UNCHANGED <<family, readerVars, cancelled, cpc, errsGot, bacc, bres, ghostVars>>

\* The fragment channel is closed: the first loop ends.
RangeFragmentsClosed ==
    /\ cpc = "rangeFrags" /\ wpc = "done"
    /\ cpc' = "rangeErrs"
    /\ UNCHANGED <<family, readerVars, workerVars, cancelled, sent, errsGot, bacc, bres,
                   ghostVars>>

\* The second loop: an error offered by the worker is received; the closed
\* error channel ends the loop.
RangeErrors ==
    /\ cpc = "rangeErrs" /\ wpc \in {"sendErr", "done"}
    /\ IF wpc = "sendErr"
       THEN ErrorTaken /\ errsGot' = Append(errsGot, werr) /\ cpc' = cpc
       ELSE cpc' = "returned" /\ UNCHANGED <<workerVars, errsGot>>
    /\ UNCHANGED <<family, readerVars, cancelled, sent, bacc, bres, ghostVars>>

(***************************************************************************)
(* NewCompletionStreamedBatchResponse: the loop over the two channels of   *)
(* NewStreamingCompletion.                                                 *)
(***************************************************************************)
\* resp.Completion += rr.Completion, and the stop reason when rr has one.
Accumulate(acc, rr) ==
    [acc EXCEPT !.Completion = acc.Completion \o rr.Completion,
                !.StopReason = IF rr.StopReason # <<>> THEN rr.StopReason ELSE acc.StopReason,
                !.Stop = IF rr.StopReason # <<>> THEN rr.Stop ELSE acc.Stop]

\* case err = <-errs: return nil, err (a closed channel yields nil).
BatchRecvErr ==
    /\ cpc = "batch" /\ wpc \in {"sendErr", "done"}
    /\ bres' = [returned |-> TRUE, resp |-> <<>>,
                err |-> IF wpc = "sendErr" THEN werr ELSE NilErr]
    /\ cpc' = "returned"
    /\ IF wpc = "sendErr"
       THEN ErrorTaken /\ errsGot' = Append(errsGot, werr)
       ELSE UNCHANGED <<workerVars, errsGot>>
    /\ UNCHANGED <<family, readerVars, cancelled, sent, bacc, ghostVars>>

\* case rr := <-resps: accumulate; break and return once a stop reason is set.
BatchRecvResp ==
    /\ cpc = "batch"
    /\ FragmentTaken
    /\ sent' = Append(sent, wfrag)
    /\ bacc' = Accumulate(bacc, wfrag)
    /\ IF bacc'.StopReason # <<>>
       THEN /\ bres' = [returned |-> TRUE, resp |-> <<bacc'>>, err |-> NilErr]
            /\ cpc' = "returned"
       ELSE UNCHANGED <<bres, cpc>>
    /\ UNCHANGED <<family, readerVars, cancelled, errsGot, ghostVars>>

(***************************************************************************)
(* Specifications.                                                         *)
(***************************************************************************)
vars == <<streamVars, frameVars, retryVars, twoVars, pureVars>>

otherVars == <<frameVars, retryVars, twoVars, pureVars>>

\* The reader and the worker of one call, and the caller's context: what
\* they do apart from the steps that depend on what the server writes, the
\* end of the body and the receiving of a chunk.
CallSteps ==
    \/ ReadData /\ UNCHANGED otherVars
    \/ ReadError /\ UNCHANGED otherVars
    \/ RecvClosedChunk /\ UNCHANGED otherVars
    \/ RecvReaderErr /\ UNCHANGED otherVars
    \/ CtxDone /\ UNCHANGED otherVars
    \/ HandleEvent /\ UNCHANGED otherVars
    \/ Cancel /\ UNCHANGED otherVars

CallNext ==
    \/ CallSteps
    \/ ReadEOF(Universe(family)) /\ UNCHANGED otherVars
    \/ RecvChunk(Universe(family)) /\ UNCHANGED otherVars

\* A streaming call of either family, its caller receiving from both channels.
Init ==
    /\ \E f \in {"message", "completion"} : StreamStart(f, "select")
    /\ FrameIdle /\ RetryIdle /\ TwoIdle /\ PureIdle

Next ==
    \/ CallNext
    \/ RecvFragment /\ UNCHANGED otherVars
    \/ RecvError /\ UNCHANGED otherVars

Spec == Init /\ [][Next]_vars

\* The same call over the streams of LiveUniverse, with Body.Read returning,
\* a select case that stays ready being chosen, and the caller receiving.
FairNext ==
    \/ CallSteps
    \/ ReadEOF(LiveUniverse(family)) /\ UNCHANGED otherVars
    \/ RecvChunk(LiveUniverse(family)) /\ UNCHANGED otherVars
    \/ RecvFragment /\ UNCHANGED otherVars
    \/ RecvError /\ UNCHANGED otherVars

Fairness ==
    /\ WF_vars((ReadData \/ ReadEOF(LiveUniverse(family)) \/ ReadError)
                  /\ UNCHANGED otherVars)
    /\ WF_vars(RecvChunk(LiveUniverse(family)) /\ UNCHANGED otherVars)
    /\ WF_vars(RecvReaderErr /\ UNCHANGED otherVars)
    /\ WF_vars(CtxDone /\ UNCHANGED otherVars)
    /\ WF_vars(HandleEvent /\ UNCHANGED otherVars)
    /\ WF_vars(RecvFragment /\ UNCHANGED otherVars)
    /\ WF_vars(RecvError /\ UNCHANGED otherVars)

FairSpec == Init /\ [][FairNext]_vars /\ Fairness

\* A streaming call of either family, its caller ranging over the fragment
\* channel and then over the error channel.
SpecRangeInit ==
    /\ \E f \in {"message", "completion"} : StreamStart(f, "rangeFrags")
    /\ FrameIdle /\ RetryIdle /\ TwoIdle /\ PureIdle

SpecRangeNext ==
    \/ CallNext
    \/ RangeFragment /\ UNCHANGED otherVars
    \/ RangeFragmentsClosed /\ UNCHANGED otherVars
    \/ RangeErrors /\ UNCHANGED otherVars

SpecRange == SpecRangeInit /\ [][SpecRangeNext]_vars

\* NewCompletionStreamedBatchResponse over a completion stream.
SpecBatchInit ==
    /\ StreamStart("completion", "batch")
    /\ FrameIdle /\ RetryIdle /\ TwoIdle /\ PureIdle

SpecBatchNext ==
    \/ CallNext
    \/ BatchRecvErr /\ UNCHANGED otherVars
    \/ BatchRecvResp /\ UNCHANGED otherVars

SpecBatch == SpecBatchInit /\ [][SpecBatchNext]_vars

SpecFrameInit == FrameInit /\ RetryIdle /\ StreamIdle /\ TwoIdle /\ PureIdle
SpecFrameNext ==
    \/ FrameWhole /\ UNCHANGED <<retryVars, streamVars, twoVars, pureVars>>
    \/ FrameFirst /\ UNCHANGED <<retryVars, streamVars, twoVars, pureVars>>
    \/ FrameSecond /\ UNCHANGED <<retryVars, streamVars, twoVars, pureVars>>
SpecFrame == SpecFrameInit /\ [][SpecFrameNext]_vars

SpecRetryInit == RetryInit /\ FrameIdle /\ StreamIdle /\ TwoIdle /\ PureIdle
SpecRetryNext == CallRetryable /\ UNCHANGED <<frameVars, streamVars, twoVars, pureVars>>
SpecRetry == SpecRetryInit /\ [][SpecRetryNext]_vars

\* A caller that may stop receiving for good: the reader and the worker keep
\* being scheduled, the caller's receives happen only while it still receives.
StopReceiving ==
    /\ cpc = "select"
    /\ cpc' = "stopped"
    /\ UNCHANGED <<family, readerVars, workerVars, cancelled, sent, errsGot, bacc, bres,
                   ghostVars>>

SpecAbandonNext ==
    \/ FairNext
    \/ StopReceiving /\ UNCHANGED otherVars

SpecAbandon == Init /\ [][SpecAbandonNext]_vars /\ Fairness

(***************************************************************************)
(* The blocking calls: NewCompletion, NewMessageRequest and                *)
(* NewShortHandMessageRequest over post and interpretResponse.             *)
(***************************************************************************)
StatusOK == 200
StatusBadRequest == 400

\* fmt.Errorf("code: %d, ..."): an error that is no ResponseError.
PlainErr(data) == MkErr("fmt.Errorf", "", "", data)
\* The error of an io.ReadAll that fails.
ReadAllErr == MkErr("io.ReadAll", "", "", <<>>)

\* interpretResponse(resp), resp a response with this status code whose body
\* reads (readOK) as these bytes.
interpretResponse(status, readOK, body) ==
    IF status < StatusOK \/ status >= StatusBadRequest
    THEN IF ~readOK THEN PlainErr(<<>>)
         ELSE LET doc == ParseJSON(body)
              IN  IF doc.valid
                  THEN [UnmarshalResponseError(doc) EXCEPT !.Err.Code = status]
                  ELSE PlainErr(body)
    ELSE NilErr

\* post(...) once http.DefaultClient.Do has returned a response: the bytes
\* of the body and the error.
post(status, readOK, body) ==
    LET err == interpretResponse(status, readOK, body)
    IN  IF err # NilErr THEN [b |-> <<>>, err |-> err]
        ELSE IF ~readOK THEN [b |-> <<>>, err |-> ReadAllErr]
        ELSE [b |-> body, err |-> NilErr]

\* NewCompletion / NewMessageRequest / NewShortHandMessageRequest: the
\* Response (a pointer) and the error they return.  Any error of
\* json.Unmarshal makes the call return nil and that error: a body that is
\* not JSON and, for the calls that decode into a v3.Response, a usage the
\* Response cannot store.  The Response of NewCompletion has no usage field.
BlockingCall(fn, status, readOK, body) ==
    LET r == post(status, readOK, body)
        doc == ParseJSON(r.b)
    IN  IF r.err # NilErr THEN [resp |-> <<>>, err |-> r.err]
        ELSE IF ~doc.valid THEN [resp |-> <<>>, err |-> JSONErr]
        ELSE IF fn = "NewCompletion"
        THEN [resp |-> <<UnmarshalResponse(doc)>>, err |-> NilErr]
        ELSE IF doc.usage_bad THEN [resp |-> <<>>, err |-> JSONErr]
        ELSE [resp |-> <<UnmarshalV3ResponseInto(ZeroV3Response, doc)>>, err |-> NilErr]

BlockingCalls == {"NewCompletion", "NewMessageRequest", "NewShortHandMessageRequest"}
\* Status codes below, in and above the 2xx range and on the borders of the
\* ranges interpretResponse tests.
BlockingStatuses == {199, 200, 204, 299, 304, 399, 400, 429, 500, 529}
BlockingBodies ==
    {TxtError, TxtErrorWithCode, TxtNotJSON, TxtHello, TxtEmptyObject,
     TxtMessageStart, TxtStartBadUsage}

BlockingInit ==
    /\ pfun \in BlockingCalls
    /\ pin \in [status : BlockingStatuses, readOK : BOOLEAN, body : BlockingBodies]
    /\ ppc = "call"
    /\ pout = <<>>

CallBlocking ==
    /\ pfun \in BlockingCalls /\ ppc = "call"
    /\ pout' = BlockingCall(pfun, pin.status, pin.readOK, pin.body)
    /\ ppc' = "done"
    /\ UNCHANGED <<pfun, pin>>

SpecBlockingInit == BlockingInit /\ FrameIdle /\ RetryIdle /\ StreamIdle /\ TwoIdle
SpecBlockingNext == CallBlocking /\ UNCHANGED <<frameVars, retryVars, streamVars, twoVars>>
SpecBlocking == SpecBlockingInit /\ [][SpecBlockingNext]_vars

(***************************************************************************)
(* parseEvents applied to event text that does not match the pattern.      *)
(***************************************************************************)
\* An event with its type line only, with its data line only, without the
\* space after the field names, and text that is no event at all.
TxtTypeOnly ==
    <<"e","v","e","n","t",":"," ","p","i","n","g","\n","\n">>
TxtDataOnly ==
    <<"d","a","t","a",":"," ","{","}","\n","\n">>
TxtNoSpace ==
    <<"e","v","e","n","t",":","p","i","n","g","\n","d","a","t","a",":","{","}","\n","\n">>
TxtGarbage ==
    <<"o","o","p","s","\n","\n">>

MalformedTexts == {TxtTypeOnly, TxtDataOnly, TxtNoSpace, TxtGarbage}
WellFormedTexts == {Wire(e.Type, e.Data) : e \in FrameEvents}

RECURSIVE Flatten(_)
Flatten(pieces) == IF pieces = <<>> THEN <<>> ELSE Head(pieces) \o Flatten(Tail(pieces))

\* One chunk: up to MaxFrameEvents pieces, well-formed or not.
MalformedInit ==
    /\ pfun = "parseEvents"
    /\ pin \in SeqsUpTo(MalformedTexts \cup WellFormedTexts, MaxFrameEvents)
    /\ ppc = "call"
    /\ pout = <<>>

CallParseEvents ==
    /\ pfun = "parseEvents" /\ ppc = "call"
    /\ pout' = parseEvents(Flatten(pin))
    /\ ppc' = "done"
    /\ UNCHANGED <<pfun, pin>>

SpecMalformedInit == MalformedInit /\ FrameIdle /\ RetryIdle /\ StreamIdle /\ TwoIdle
SpecMalformedNext == CallParseEvents /\ UNCHANGED <<frameVars, retryVars, streamVars, twoVars>>
SpecMalformed == SpecMalformedInit /\ [][SpecMalformedNext]_vars

\* Streams in which event types of the other family, an unknown type and an
\* empty type stand among events the family knows.
ForeignUniverse(f) ==
    IF f = "message"
    THEN { Ev(eventTypeContentBlockStart, TxtBlockStartA),
           Ev(eventTypeContentBlockDelta, TxtDeltaB),
           Ev(eventTypePing, TxtEmptyObject),
           Ev(eventTypeCompletion, TxtHello),
           Ev(TypeUnknown, TxtEmptyObject),
           Ev(<<>>, TxtEmptyObject) }
    ELSE { Ev(eventTypeCompletion, TxtHello),
           Ev(eventTypePing, TxtEmptyObject),
           Ev(eventTypeMessageStart, TxtMessageStart),
           Ev(eventTypeContentBlockDelta, TxtDeltaB),
           Ev(eventTypeMessageStop, TxtEmptyObject),
           Ev(TypeUnknown, TxtEmptyObject) }

SpecForeignNext ==
    \/ CallSteps
    \/ ReadEOF(ForeignUniverse(family)) /\ UNCHANGED otherVars
    \/ RecvChunk(ForeignUniverse(family)) /\ UNCHANGED otherVars
    \/ RecvFragment /\ UNCHANGED otherVars
    \/ RecvError /\ UNCHANGED otherVars

SpecForeign == Init /\ [][SpecForeignNext]_vars

(***************************************************************************)
(* Two streaming calls on one Client at the same time.  The variables of   *)
(* one streaming call hold the call that takes the next step; the other    *)
(* call's state waits in a record, and a switch exchanges the two.         *)
(***************************************************************************)
\* Everything NewStreamingMessageRequest and postStream make anew for each
\* call: the channels, the two err variables, the Response, the buffers.
CallState ==
    [family |-> family, nreads |-> nreads, pending |-> pending, rpc |-> rpc,
     rerr |-> rerr, wpc |-> wpc, evs |-> evs, wfrag |-> wfrag, wthen |-> wthen,
     werr |-> werr, resp |-> resp, terminal |-> terminal, cancelled |-> cancelled,
     cpc |-> cpc, sent |-> sent, errsGot |-> errsGot, bacc |-> bacc, bres |-> bres,
     gshape |-> gshape, gtext |-> gtext, gok |-> gok, gmid |-> gmid, gfrags |-> gfrags,
     gclosed |-> gclosed]

\* The state of a call that has just started.
StartState(f, mode) ==
    [family |-> f, nreads |-> 0, pending |-> <<>>, rpc |-> "read",
     rerr |-> NilErr, wpc |-> "select", evs |-> <<>>, wfrag |-> "", wthen |-> "next",
     werr |-> NilErr, resp |-> ZeroV3Response, terminal |-> FALSE, cancelled |-> FALSE,
     cpc |-> mode, sent |-> <<>>, errsGot |-> <<>>, bacc |-> ZeroResponse,
     bres |-> NoReturn,
     gshape |-> "init", gtext |-> "", gok |-> TRUE, gmid |-> FALSE, gfrags |-> <<>>,
     gclosed |-> FALSE]

\* var resp = &v3.Response{}: the Response the steps of a call work on is
\* the one made for that call (theirs), whatever the call that ran before
\* left in its own (mine).
RespOfClient(mine, theirs) == mine

RespOfCall(mine, theirs) == theirs

\* var receive, errs, err = c.postStream(...): likewise the err variable the
\* worker's closure captures.
ErrOfCall(mine, theirs) == theirs

\* The scheduler turns to the other call.
SwitchCall ==
    /\ Running /\ other # <<>>
    /\ focus' = 3 - focus
    /\ other' = CallState
    /\ family' = other.family /\ nreads' = other.nreads /\ pending' = other.pending
    /\ rpc' = other.rpc /\ rerr' = other.rerr /\ wpc' = other.wpc /\ evs' = other.evs
    /\ wfrag' = other.wfrag /\ wthen' = other.wthen
    /\ werr' = ErrOfCall(werr, other.werr)
    /\ resp' = RespOfCall(resp, other.resp)
    /\ terminal' = other.terminal /\ cancelled' = other.cancelled /\ cpc' = other.cpc
    /\ sent' = other.sent /\ errsGot' = other.errsGot /\ bacc' = other.bacc
    /\ bres' = other.bres /\ gshape' = other.gshape /\ gtext' = other.gtext
    /\ gok' = other.gok /\ gmid' = other.gmid /\ gfrags' = other.gfrags
    /\ gclosed' = other.gclosed

\* The events the server writes to each call: texts "a", "b" and the terminal
\* event to the first, texts "", "c" and an unknown type to the second.
TwoUniverse(id) ==
    IF id = 1
    THEN { Ev(eventTypeContentBlockStart, TxtBlockStartA),
           Ev(eventTypeContentBlockDelta, TxtDeltaB),
           Ev(eventTypeMessageStop, TxtEmptyObject) }
    ELSE { Ev(eventTypeContentBlockStart, TxtBlockStartEmpty),
           Ev(eventTypeContentBlockDelta, TxtDeltaC),
           Ev(TypeUnknown, TxtEmptyObject) }

\* With two calls: events the server writes to a call between two reads, and
\* every read ending with the last byte written.
TwoChunkEvents == 1
TwoCutBacks == {0}

SpecTwoInit ==
    /\ StreamStart("message", "select")
    /\ focus = 1 /\ other = StartState("message", "select")
    /\ FrameIdle /\ RetryIdle /\ PureIdle

stillVars == <<frameVars, retryVars, pureVars>>

SpecTwoNext ==
    \/ ReadData /\ UNCHANGED <<twoVars, stillVars>>
    \/ ReadEOFOf(TwoUniverse(focus), TwoChunkEvents) /\ UNCHANGED <<twoVars, stillVars>>
    \/ RecvChunkOf(TwoUniverse(focus), TwoChunkEvents, TwoCutBacks)
           /\ UNCHANGED <<twoVars, stillVars>>
    \/ RecvClosedChunk /\ UNCHANGED <<twoVars, stillVars>>
    \/ RecvReaderErr /\ UNCHANGED <<twoVars, stillVars>>
    \/ HandleEvent /\ UNCHANGED <<twoVars, stillVars>>
    \/ RecvFragment /\ UNCHANGED <<twoVars, stillVars>>
    \/ RecvError /\ UNCHANGED <<twoVars, stillVars>>
    \/ SwitchCall /\ UNCHANGED stillVars

SpecTwo == SpecTwoInit /\ [][SpecTwoNext]_vars

(***************************************************************************)
(* Prompts: Message, Messages.Validate and NewPromptFromMessages.          *)
(***************************************************************************)
UserTypeHuman == "\n\nHuman"
UserTypeAssistant == "\n\nAssistant"
UserTypeSystem == "System"
\* UserType is a string type: a value that is none of the three constants.
UserTypeOther == "Bot"

ErrEmptyMessages == MkErr("ErrEmptyMessages", "", "", <<>>)
ErrBadSystemMessage == MkErr("ErrBadSystemMessage", "", "", <<>>)
ErrMissingAssistant == MkErr("ErrMissingAssistant", "", "", <<>>)

\* fmt.Sprintf("%s: %s", m.UserType, m.Text) for every message.
marshalAlwaysTagged(m) == m.UserType \o ": " \o m.Text

\* func (m *Message) marshal() string
marshal(m) ==
    IF m.UserType = UserTypeSystem
    THEN m.Text
    ELSE m.UserType \o ": " \o m.Text

\* The loop of Validate from index i (counted from 0) with its two checks in
\* the other order.
RECURSIVE ValidateFromAssistantFirst(_, _)
ValidateFromAssistantFirst(m, i) ==
    IF i = Len(m) THEN NilErr
    ELSE IF i = Len(m) - 1 /\ m[i + 1].UserType # UserTypeAssistant
         THEN ErrMissingAssistant
    ELSE IF m[i + 1].UserType = UserTypeSystem /\ i # 0
         THEN ErrBadSystemMessage
    ELSE ValidateFromAssistantFirst(m, i + 1)

\* for i, v := range m { ... } of Validate, from index i (counted from 0).
RECURSIVE ValidateFrom(_, _)
ValidateFrom(m, i) ==
    IF i = Len(m) THEN NilErr
    ELSE IF m[i + 1].UserType = UserTypeSystem /\ i # 0
         THEN ErrBadSystemMessage
    ELSE IF i = Len(m) - 1 /\ m[i + 1].UserType # UserTypeAssistant
         THEN ErrMissingAssistant
    ELSE ValidateFrom(m, i + 1)

\* func (m Messages) Validate() error
Validate(m) == IF Len(m) = 0 THEN ErrEmptyMessages ELSE ValidateFrom(m, 0)

\* strings.Join(elems, "")
RECURSIVE JoinNoSep(_)
JoinNoSep(elems) ==
    IF elems = <<>> THEN "" ELSE Head(elems) \o JoinNoSep(Tail(elems))

\* func NewPromptFromMessages(msg []*Message) Prompt
NewPromptFromMessages(msg) ==
    JoinNoSep([i \in 1..Len(msg) |-> marshal(msg[i])])

\* Slices of at most MaxMessages messages, none of them a nil pointer.
MaxMessages == 3
MessageTexts == {"", "Hi", "Hello!"}
MessageValues ==
    { [UserType |-> u, Text |-> t] :
        u \in {UserTypeHuman, UserTypeAssistant, UserTypeSystem, UserTypeOther},
        t \in MessageTexts }

PromptInit ==
    /\ pfun \in {"Validate", "NewPromptFromMessages"}
    /\ pin \in SeqsUpTo(MessageValues, MaxMessages)
    /\ ppc = "call"
    /\ pout = <<>>

CallValidate ==
    /\ pfun = "Validate" /\ ppc = "call"
    /\ pout' = [err |-> Validate(pin)]
    /\ ppc' = "done"
    /\ UNCHANGED <<pfun, pin>>

CallNewPromptFromMessages ==
    /\ pfun = "NewPromptFromMessages" /\ ppc = "call"
    /\ pout' = [prompt |-> NewPromptFromMessages(pin)]
    /\ ppc' = "done"
    /\ UNCHANGED <<pfun, pin>>

SpecPromptInit == PromptInit /\ FrameIdle /\ RetryIdle /\ StreamIdle /\ TwoIdle
SpecPromptNext ==
    \/ CallValidate /\ UNCHANGED <<frameVars, retryVars, streamVars, twoVars>>
    \/ CallNewPromptFromMessages /\ UNCHANGED <<frameVars, retryVars, streamVars, twoVars>>
SpecPrompt == SpecPromptInit /\ [][SpecPromptNext]_vars

(***************************************************************************)
(* Model names (models.go of package anthropic and of package v3).  A      *)
(* Model is an int; the constants count up from UnknownModel in the order  *)
(* of their declaration.  Text is held as a string: []byte(s) and          *)
(* string(b) keep every byte.                                              *)
(***************************************************************************)
Packages == {"anthropic", "v3"}

UnknownModel == 0

\* var completionToString = map[Model]string{...}: the name at position n is
\* the name of the constant of value n.
completionToString(pkg) ==
    IF pkg = "anthropic"
    THEN << "claude-2",                   \* Claude
            "claude-2.0",                 \* Claude2Dot0
            "claude-2.1",                 \* Claude2Dot1
            "claude-instant-1",           \* ClaudeInstant
            "claude-instant-1.1",         \* ClaudeInstant1Dot1
            "claude-3-opus-20240229",     \* Claude3Opus20240229
            "claude-3-sonnet-20240229" >> \* Claude3Sonnet20240229
    ELSE << "claude-3-opus-20240229",     \* Claude3Opus20240229
            "claude-3-sonnet-20240229",   \* Claude3Sonnet20240229
            "claude-3-haiku-20240307",    \* Claude3Haiku20240307
            "claude-3-5-sonnet-20240620", \* Claude3Dot5Sonnet20240620
            "claude-3-5-sonnet-20241022", \* Claude3Dot5Sonnet20241022
            "claude-3-7-sonnet-20250219", \* Claude3Dot7Sonnet20250219
            "claude-3-5-sonnet-latest",   \* Claude3Dot5Sonnet
            "claude-3-5-opus-latest",     \* Claude3Dot5Opus
            "claude-3-5-haiku-latest",    \* Claude3Dot5Haiku
            "claude-3-7-sonnet-latest",   \* Claude3Dot7Sonnet
            "claude-sonnet-4-20250514",   \* Claude4Sonnet20250514
            "claude-opus-4-20250514",     \* Claude4Opus20250514
            "claude-sonnet-4-5",          \* ClaudeSonnet4Dot5
            "claude-haiku-4-5",           \* ClaudeHaiku4Dot5
            "claude-opus-4-1" >>          \* ClaudeOpus4Dot1

\* var stringToCompletion = map[string]Model{...} of package anthropic.
stringToCompletionRoot ==
    ("claude-2" :> 1) @@ ("claude-2.0" :> 2) @@ ("claude-2.1" :> 3)
    @@ ("claude-instant-1" :> 4) @@ ("claude-instant-1.1" :> 5)
    @@ ("claude-3-opus-20240229" :> 6) @@ ("claude-3-sonnet-20240229" :> 7)

\* var stringToCompletion = map[string]Model{...} of package v3.
stringToCompletionV3 ==
    ("claude-3-opus-20240229" :> 1) @@ ("claude-3-sonnet-20240229" :> 2)
    @@ ("claude-3-haiku-20240307" :> 3) @@ ("claude-3-5-sonnet-20240620" :> 4)
    @@ ("claude-3-5-sonnet-20241022" :> 5) @@ ("claude-3-7-sonnet-20250219" :> 6)
    @@ ("claude-3-5-sonnet-latest" :> 7) @@ ("claude-3-5-opus-latest" :> 8)
    @@ ("claude-3-5-haiku-latest" :> 9) @@ ("claude-3-7-sonnet-latest" :> 10)
    @@ ("claude-sonnet-4-20250514" :> 11) @@ ("claude-opus-4-20250514" :> 12)
    @@ ("claude-sonnet-4-5" :> 13) @@ ("claude-haiku-4-5" :> 14)
    @@ ("claude-opus-4-1" :> 15)

\* One table of names for both packages.
stringToCompletionShared(pkg) == stringToCompletionRoot

stringToCompletion(pkg) ==
    IF pkg = "anthropic" THEN stringToCompletionRoot ELSE stringToCompletionV3

\* func (c Model) String() string: a key the map lacks gives "".
String(pkg, c) ==
    IF c \in DOMAIN completionToString(pkg) THEN completionToString(pkg)[c] ELSE ""

\* func (c Model) MarshalText() ([]byte, error)
MarshalText(pkg, c) == [text |-> String(pkg, c), err |-> NilErr]

\* func (c *Model) UnmarshalText(b []byte) error: the value left in *c and
\* the error returned.
UnmarshalText(pkg, b) ==
    IF b \in DOMAIN stringToCompletion(pkg)
    THEN [model |-> stringToCompletion(pkg)[b], err |-> NilErr]
    ELSE [model |-> UnknownModel, err |-> NilErr]

\* The Model values a package declares.
DefinedModels(pkg) == {UnknownModel} \cup DOMAIN completionToString(pkg)

\* Model values to marshal: the declared ones, the int below them and the
\* int above them.
ModelInputs(pkg) == (UnknownModel - 1)..(Len(completionToString(pkg)) + 1)

\* Texts to unmarshal: the names of both packages and texts that are a name
\* of neither.
StrangeTexts == {"", "claude", "Claude-2", "claude-2 ", "claude-v1", "claude-3-opus"}
TextInputs ==
    DOMAIN stringToCompletionRoot \cup DOMAIN stringToCompletionV3 \cup StrangeTexts

ModelTextInit ==
    /\ \/ /\ pfun = "MarshalText"
          /\ \E pkg \in Packages : \E c \in ModelInputs(pkg) :
                pin = [pkg |-> pkg, model |-> c]
       \/ /\ pfun = "UnmarshalText"
          /\ \E pkg \in Packages : \E b \in TextInputs :
                pin = [pkg |-> pkg, text |-> b]
    /\ ppc = "call"
    /\ pout = <<>>

\* b, err := m.MarshalText()
CallMarshalText ==
    /\ pfun = "MarshalText" /\ ppc = "call"
    /\ pout' = MarshalText(pin.pkg, pin.model)
    /\ ppc' = "marshalled"
    /\ UNCHANGED <<pfun, pin>>

\* err := c.UnmarshalText(b), b being the text given or the text MarshalText
\* returned.
CallUnmarshalText ==
    /\ \/ pfun = "UnmarshalText" /\ ppc = "call"
          /\ pout' = UnmarshalText(pin.pkg, pin.text)
       \/ pfun = "MarshalText" /\ ppc = "marshalled"
          /\ pout' = UnmarshalText(pin.pkg, pout.text)
    /\ ppc' = "done"
    /\ UNCHANGED <<pfun, pin>>

SpecModelTextInit == ModelTextInit /\ FrameIdle /\ RetryIdle /\ StreamIdle /\ TwoIdle
SpecModelTextNext ==
    \/ CallMarshalText /\ UNCHANGED <<frameVars, retryVars, streamVars, twoVars>>
    \/ CallUnmarshalText /\ UNCHANGED <<frameVars, retryVars, streamVars, twoVars>>
SpecModelText == SpecModelTextInit /\ [][SpecModelTextNext]_vars

(***************************************************************************)
(* A message call over streams of block events: blocks of index 0 and 1,   *)
(* deltas for either index, block stops, message_delta with and without a  *)
(* stop reason, message_start well-typed and not.                          *)
(***************************************************************************)
BlockUniverse ==
    { Ev(eventTypeMessageStart, TxtMessageStart),
      Ev(eventTypeMessageStart, TxtStartBadUsage),
      Ev(eventTypeContentBlockStart, TxtBlockStartA),
      Ev(eventTypeContentBlockStart, TxtBlockStartEmpty),
      Ev(eventTypeContentBlockDelta, TxtDeltaB),
      Ev(eventTypeContentBlockDelta, TxtDeltaC),
      Ev(eventTypeContentBlockStop, TxtIndexOnly),
      Ev(eventTypeMessageDelta, TxtMessageDelta),
      Ev(eventTypeMessageDelta, TxtEmptyObject) }

\* Every read ends with the last byte written.
WholeReads == {0}

SpecBlocksInit ==
    /\ StreamStart("message", "select")
    /\ FrameIdle /\ RetryIdle /\ TwoIdle /\ PureIdle

SpecBlocksNext ==
    \/ CallSteps
    \/ ReadEOF(BlockUniverse) /\ UNCHANGED otherVars
    \/ RecvChunkOf(BlockUniverse, MaxChunkEvents, WholeReads) /\ UNCHANGED otherVars
    \/ RecvFragment /\ UNCHANGED otherVars
    \/ RecvError /\ UNCHANGED otherVars

SpecBlocks == SpecBlocksInit /\ [][SpecBlocksNext]_vars

(***************************************************************************)
(* The two message functions over the same reads.  The body of a response  *)
(* yields the reads held in pin and EOF; NewStreamingMessageRequest runs    *)
(* over them to its end, and then NewStreamingShortHandMessageRequest runs  *)
(* over the same reads, the first run's state waiting in other.             *)
(***************************************************************************)
\* The events of the first read: every case of the switch, and with every
\* case that decodes its payload a payload that decodes, one that is not JSON
\* and, where the statements after the decoding can fault, one that faults.
SameUniverse ==
    { Ev(eventTypeMessageStart, TxtMessageStart),
      Ev(eventTypeMessageStart, TxtStartBadUsage),
      Ev(eventTypeMessageStart, TxtNotJSON),
      Ev(eventTypeMessageDelta, TxtMessageDelta),
      Ev(eventTypeMessageDelta, TxtNotJSON),
      Ev(eventTypeMessageStop, TxtEmptyObject),
      Ev(eventTypeContentBlockStart, TxtBlockStartA),
      Ev(eventTypeContentBlockStart, TxtIndexOnly),
      Ev(eventTypeContentBlockStart, TxtNotJSON),
      Ev(eventTypeContentBlockDelta, TxtDeltaB),
      Ev(eventTypeContentBlockDelta, TxtIndexOnly),
      Ev(eventTypeContentBlockDelta, TxtNotJSON),
      Ev(eventTypeContentBlockStop, TxtIndexOnly),
      Ev(eventTypeError, TxtError),
      Ev(eventTypeError, TxtNotJSON),
      Ev(eventTypePing, TxtEmptyObject),
      Ev(TypeUnknown, TxtEmptyObject) }

\* The events of the reads after the first: those that change the Response
\* or end the stream.
SameLater ==
    { Ev(eventTypeMessageStart, TxtMessageStart),
      Ev(eventTypeContentBlockDelta, TxtDeltaB),
      Ev(eventTypeMessageDelta, TxtMessageDelta),
      Ev(eventTypeMessageStop, TxtEmptyObject) }

\* The events of each of the MaxReads reads.
SameReads ==
    { f \in [1..MaxReads -> SeqsUpTo(SameUniverse, MaxChunkEvents)] :
        \A i \in 2..MaxReads : f[i] \in SeqsUpTo(SameLater, MaxChunkEvents) }

\* The worker has returned or has faulted; every send of it was received.
CallEnded == wpc \in {"done", "panic"}

\* A second run starts in state c, the state the first run ended in waiting
\* in other.
StartRun(c) ==
    /\ focus = 1 /\ other = <<>>
    /\ focus' = 2
    /\ other' = CallState
    /\ family' = c.family /\ nreads' = c.nreads /\ pending' = c.pending
    /\ rpc' = c.rpc /\ rerr' = c.rerr /\ wpc' = c.wpc /\ evs' = c.evs
    /\ wfrag' = c.wfrag /\ wthen' = c.wthen /\ werr' = c.werr
    /\ resp' = c.resp /\ terminal' = c.terminal /\ cancelled' = c.cancelled
    /\ cpc' = c.cpc /\ sent' = c.sent /\ errsGot' = c.errsGot
    /\ bacc' = c.bacc /\ bres' = c.bres /\ gshape' = c.gshape
    /\ gtext' = c.gtext /\ gok' = c.gok /\ gmid' = c.gmid
    /\ gfrags' = c.gfrags /\ gclosed' = c.gclosed

\* The call of NewStreamingShortHandMessageRequest: postStream and the worker
\* start anew, with channels, Response and err of their own.
RunShortHand ==
    /\ CallEnded
    /\ StartRun(StartState("shorthand", "select"))

\* ppc tells how the body ends in both runs: with a read that returns io.EOF
\* and no byte after the reads of pin ("eofAlone"), or with the last read of
\* pin returning its bytes together with io.EOF ("eofWithLastRead").
SpecSameInit ==
    /\ StreamStart("message", "select")
    /\ TwoIdle
    /\ pfun = "reads" /\ pin \in SameReads /\ pout = <<>>
    /\ ppc \in {"eofAlone", "eofWithLastRead"}
    /\ FrameIdle /\ RetryIdle

SpecSameNext ==
    \/ (ppc = "eofWithLastRead" => nreads < MaxReads - 1) /\ ReadData
           /\ UNCHANGED <<twoVars, stillVars>>
    \/ ppc = "eofAlone" /\ nreads = MaxReads /\ ReadEOFFrom({<<>>})
           /\ UNCHANGED <<twoVars, stillVars>>
    \/ ppc = "eofWithLastRead" /\ nreads = MaxReads - 1 /\ ReadEOFFrom({pin[MaxReads]})
           /\ UNCHANGED <<twoVars, stillVars>>
    \/ RecvChunkFrom({pin[nreads]}, WholeReads) /\ UNCHANGED <<twoVars, stillVars>>
    \/ RecvClosedChunk /\ UNCHANGED <<twoVars, stillVars>>
    \/ RecvReaderErr /\ UNCHANGED <<twoVars, stillVars>>
    \/ HandleEvent /\ UNCHANGED <<twoVars, stillVars>>
    \/ RecvFragment /\ UNCHANGED <<twoVars, stillVars>>
    \/ RecvError /\ UNCHANGED <<twoVars, stillVars>>
    \/ RunShortHand /\ UNCHANGED stillVars

SpecSame == SpecSameInit /\ [][SpecSameNext]_vars

(***************************************************************************)
(* Framing and the size of a read.  var msg = make([]byte, bufferSize): a  *)
(* read hands the framer at most bufferSize bytes.  The streams are those   *)
(* of FrameStreams and one whose first event is longer than the buffer;     *)
(* each is delivered in two reads of at most bufferSize bytes.              *)
(***************************************************************************)
\* A payload of bufferSize bytes: with its type and the literals around it
\* the event is longer than one read.
LongPayload == [i \in 1..bufferSize |-> "x"]

LongStream ==
    WireAll(<< [Type |-> eventTypeCompletion, Data |-> LongPayload],
               [Type |-> eventTypePing, Data |-> TxtEmptyObject] >>)

BufferInit ==
    /\ fstream \in FrameStreams \cup {LongStream}
    /\ fsplit \in 0..Len(fstream)
    /\ fsplit <= bufferSize
    /\ Len(fstream) - fsplit <= bufferSize
    /\ fpc = "whole"
    /\ fOne = NoFraming
    /\ fTwo = NoFraming

SpecBufferInit == BufferInit /\ RetryIdle /\ StreamIdle /\ TwoIdle /\ PureIdle

SpecBuffer == SpecBufferInit /\ [][SpecFrameNext]_vars

(***************************************************************************)
(* The Bedrock client (package anthropic): what NewCompletion and           *)
(* NewStreamingCompletion do with the Request they are given.  pin is the   *)
(* caller's Request, which the calls reach through a pointer; pout lists,   *)
(* call by call, what was handed to the Bedrock runtime.                    *)
(***************************************************************************)
\* Calls made with one Request.
MaxBedrockCalls == 2

\* var bedrockToString = map[Model]string{...}
bedrockToString ==
    [c \in {1, 2, 4} |-> CASE c = 1 -> "anthropic.claude-v2"          \* Claude
                           [] c = 2 -> "anthropic.claude-v2"          \* Claude2Dot0
                           [] c = 4 -> "anthropic.claude-instant-v1"] \* ClaudeInstant

\* func (c Model) BedrockString() string: a key the map lacks gives "".
BedrockString(c) == IF c \in DOMAIN bedrockToString THEN bedrockToString[c] ELSE ""

\* req.Model = UnknownModel, and no assignment to req.Model after it.
ModelLeft(m) == UnknownModel

\* var m = req.Model; req.Model = UnknownModel; json.Marshal(req); the call
\* of the runtime with ModelId m.BedrockString(), which fails or not.
BedrockCall(fn) ==
    /\ pfun = "bedrock" /\ Len(pout) < MaxBedrockCalls
    /\ LET m == pin.Model
           left == ModelLeft(m)
       IN  /\ pin' = [pin EXCEPT !.Model = left]
           /\ \E failed \in BOOLEAN :
                pout' = Append(pout, [fn      |-> fn,
                                      m       |-> m,
                                      Body    |-> MarshalText("anthropic", left).text,
                                      ModelId |-> BedrockString(m),
                                      failed  |-> failed])
    /\ UNCHANGED <<pfun, ppc>>

BedrockNewCompletion == BedrockCall("NewCompletion")

BedrockNewStreamingCompletion == BedrockCall("NewStreamingCompletion")

BedrockRequestInit ==
    /\ pfun = "bedrock"
    /\ \E c \in ModelInputs("anthropic") : pin = [Model |-> c]
    /\ ppc = "idle"
    /\ pout = <<>>

SpecBedrockRequestInit ==
    BedrockRequestInit /\ FrameIdle /\ RetryIdle /\ StreamIdle /\ TwoIdle

SpecBedrockRequestNext ==
    \/ BedrockNewCompletion /\ UNCHANGED <<frameVars, retryVars, streamVars, twoVars>>
    \/ BedrockNewStreamingCompletion
           /\ UNCHANGED <<frameVars, retryVars, streamVars, twoVars>>

SpecBedrockRequest == SpecBedrockRequestInit /\ [][SpecBedrockRequestNext]_vars

(***************************************************************************)
(* The streaming worker of the Bedrock client.  The runtime's event stream  *)
(* s hands its events over the channel s.Events(), one at a time, and       *)
(* closes the channel when the stream ends; s.Err() is the error the stream *)
(* ended with, nil when it ended with none.  For a Bedrock call pending     *)
(* holds the events the stream has yet to offer, evs the event it offers,   *)
(* rpc whether the channel is "open" or "closed", rerr what s.Err() returns. *)
(***************************************************************************)
\* Events of a stream.
MaxBedrockEvents == 3

\* *bedrockruntime.PayloadPart with its Bytes, and
\* *bedrockruntime.ResponseStreamUnknownEvent.
PayloadPart(bytes) == [kind |-> "PayloadPart", Bytes |-> bytes]
ResponseStreamUnknownEvent == [kind |-> "ResponseStreamUnknownEvent", Bytes |-> <<>>]

BedrockUniverse ==
    { PayloadPart(TxtHello), PayloadPart(TxtStop), PayloadPart(TxtNotJSON),
      ResponseStreamUnknownEvent }

\* An error the event stream ends with.
StreamErr == MkErr("eventstream", "", "", <<>>)

\* The state in which the worker starts, the stream having script to offer.
BedrockStart(mode, script) ==
    /\ family = "bedrock"
    /\ nreads = 0 /\ pending = script /\ rpc = "open" /\ rerr = NilErr
    /\ wpc = "select" /\ evs = <<>> /\ wfrag = "" /\ wthen = "next" /\ werr = NilErr
    /\ resp = ZeroV3Response /\ terminal = FALSE
    /\ cancelled = FALSE
    /\ cpc = mode /\ sent = <<>> /\ errsGot = <<>>
    /\ bacc = ZeroResponse /\ bres = NoReturn
    /\ gshape = "init" /\ gtext = "" /\ gok = TRUE /\ gmid = FALSE /\ gfrags = <<>>
    /\ gclosed = FALSE

\* The stream offers its next event on s.Events().
BedrockArrive ==
    /\ family = "bedrock" /\ rpc = "open" /\ evs = <<>> /\ pending # <<>>
    /\ evs' = <<Head(pending)>>
    /\ pending' = Tail(pending)
    /\ UNCHANGED <<family, nreads, rpc, rerr, wpc, wfrag, wthen, werr, resp, terminal,
                   cancelled, callerVars, ghostVars>>

\* The stream ends, with one of the errors of ends or with none (NilErr), and
\* closes s.Events().
BedrockStreamEnd(ends) ==
    /\ family = "bedrock" /\ rpc = "open" /\ evs = <<>> /\ pending = <<>>
    /\ rpc' = "closed"
    /\ rerr' \in ends
    /\ UNCHANGED <<family, nreads, pending, workerVars, cancelled, callerVars, ghostVars>>

\* case ev := <-events, an event being offered.  A PayloadPart is decoded
\* into a fresh Response: errCh <- err when it does not decode, respCh <- out
\* when it does, followed by return when out has a stop reason.  An unknown
\* event falls out of the select.
BedrockRecvEvent ==
    /\ family = "bedrock" /\ wpc = "select" /\ evs # <<>>
    /\ evs' = <<>>
    /\ LET ev == Head(evs)
           doc == ParseJSON(ev.Bytes)
       IN  IF ev.kind = "PayloadPart"
           THEN IF ~doc.valid
                THEN /\ werr' = JSONErr /\ wpc' = "sendErr"
                     /\ UNCHANGED <<wfrag, wthen>>
                ELSE /\ wfrag' = UnmarshalResponse(doc)
                     /\ wthen' = AfterCompletionSent(UnmarshalResponse(doc))
                     /\ wpc' = "sendFrag"
                     /\ UNCHANGED werr
           ELSE /\ wpc' = "checkErr"
                /\ UNCHANGED <<wfrag, wthen, werr>>
    /\ UNCHANGED <<family, readerVars, resp, terminal, cancelled, callerVars, ghostVars>>

\* case ev := <-events on the closed channel: ev is nil, no case of the type
\* switch matches.
BedrockRecvClosed ==
    /\ family = "bedrock" /\ wpc = "select" /\ evs = <<>> /\ rpc = "closed"
    /\ wpc' = "checkErr"
    /\ UNCHANGED <<family, readerVars, evs, wfrag, wthen, werr, resp, terminal,
                   cancelled, callerVars, ghostVars>>

\* default: no event is offered and the channel is open.
BedrockDefault ==
    /\ family = "bedrock" /\ wpc = "select" /\ evs = <<>> /\ rpc = "open"
    /\ wpc' = "checkErr"
    /\ UNCHANGED <<family, readerVars, evs, wfrag, wthen, werr, resp, terminal,
                   cancelled, callerVars, ghostVars>>

\* if err = s.Err(); err != nil { errCh <- err; break }, else the next
\* iteration of the for.
BedrockCheckErr ==
    /\ family = "bedrock" /\ wpc = "checkErr"
    /\ IF rerr # NilErr
       THEN werr' = rerr /\ wpc' = "sendErr"
       ELSE werr' = werr /\ wpc' = "select"
    /\ UNCHANGED <<family, readerVars, evs, wfrag, wthen, resp, terminal,
                   cancelled, callerVars, ghostVars>>

\* The worker's side of a Response received: return after one with a stop
\* reason, else on to s.Err().
BedrockFragmentTaken ==
    /\ family = "bedrock" /\ wpc = "sendFrag"
    /\ wpc' = IF wthen = "return" THEN "done" ELSE "checkErr"
    /\ wfrag' = "" /\ wthen' = "next"
    /\ UNCHANGED <<evs, werr, resp, terminal>>

\* The worker's side of an error received: return after errCh <- err in the
\* PayloadPart case, break out of the for after the one that follows s.Err();
\* the function ends either way and its deferred closes run.
BedrockErrorTaken ==
    /\ family = "bedrock" /\ wpc = "sendErr"
    /\ wpc' = "done"
    /\ werr' = NilErr
    /\ UNCHANGED <<evs, wfrag, wthen, resp, terminal>>

\* The caller receives from the Response channel.
BedrockRecvFragment ==
    /\ cpc = "select"
    /\ BedrockFragmentTaken
    /\ sent' = Append(sent, wfrag)
    /\ UNCHANGED <<family, readerVars, cancelled, cpc, errsGot, bacc, bres, ghostVars>>

\* The caller receives from the error channel.
BedrockRecvError ==
    /\ cpc = "select"
    /\ BedrockErrorTaken
    /\ errsGot' = Append(errsGot, werr)
    /\ UNCHANGED <<family, readerVars, cancelled, cpc, sent, bacc, bres, ghostVars>>

BedrockStreams == SeqsUpTo(BedrockUniverse, MaxBedrockEvents)

SpecBedrockInit ==
    /\ \E script \in BedrockStreams : BedrockStart("select", script)
    /\ FrameIdle /\ RetryIdle /\ TwoIdle /\ PureIdle

SpecBedrockNext ==
    \/ BedrockArrive /\ UNCHANGED otherVars
    \/ BedrockStreamEnd({NilErr, StreamErr}) /\ UNCHANGED otherVars
    \/ BedrockRecvEvent /\ UNCHANGED otherVars
    \/ BedrockRecvClosed /\ UNCHANGED otherVars
    \/ BedrockDefault /\ UNCHANGED otherVars
    \/ BedrockCheckErr /\ UNCHANGED otherVars
    \/ BedrockRecvFragment /\ UNCHANGED otherVars
    \/ BedrockRecvError /\ UNCHANGED otherVars

\* The stream goes on to its end, each goroutine is scheduled when it can
\* take a step, and the caller receives what it is offered.
BedrockFairness ==
    /\ WF_vars(BedrockArrive /\ UNCHANGED otherVars)
    /\ WF_vars(BedrockStreamEnd({NilErr, StreamErr}) /\ UNCHANGED otherVars)
    /\ WF_vars(BedrockRecvEvent /\ UNCHANGED otherVars)
    /\ WF_vars(BedrockRecvClosed /\ UNCHANGED otherVars)
    /\ WF_vars(BedrockDefault /\ UNCHANGED otherVars)
    /\ WF_vars(BedrockCheckErr /\ UNCHANGED otherVars)
    /\ WF_vars(BedrockRecvFragment /\ UNCHANGED otherVars)
    /\ WF_vars(BedrockRecvError /\ UNCHANGED otherVars)

SpecBedrock == SpecBedrockInit /\ [][SpecBedrockNext]_vars /\ BedrockFairness

(***************************************************************************)
(* NewCompletionStreamedBatchResponse of the Bedrock client, and the two    *)
(* batch calls over the same completion deltas: the Client's call runs      *)
(* over the reads held in pin, whose last event has a stop reason, and then *)
(* the Bedrock client's call runs over a stream whose payloads are the      *)
(* payloads of those events.                                                *)
(***************************************************************************)
\* resp.Completion += rr.Completion
BedrockAccumulate(acc, rr) == [acc EXCEPT !.Completion = acc.Completion \o rr.Completion]

\* case err = <-errs: break loop and return resp, nil when err is nil (the
\* channel is closed), else return nil, err.
BedrockBatchRecvErr ==
    /\ family = "bedrock" /\ cpc = "batch" /\ wpc \in {"sendErr", "done"}
    /\ cpc' = "returned"
    /\ IF wpc = "sendErr"
       THEN /\ bres' = [returned |-> TRUE, resp |-> <<>>, err |-> werr]
            /\ BedrockErrorTaken
            /\ errsGot' = Append(errsGot, werr)
       ELSE /\ bres' = [returned |-> TRUE, resp |-> <<bacc>>, err |-> NilErr]
            /\ UNCHANGED <<workerVars, errsGot>>
    /\ UNCHANGED <<family, readerVars, cancelled, sent, bacc, ghostVars>>

\* case rr, ok := <-resps: break loop and return resp, nil when the channel
\* is closed, else accumulate and go on.
BedrockBatchRecvResp ==
    /\ family = "bedrock" /\ cpc = "batch" /\ wpc \in {"sendFrag", "done"}
    /\ IF wpc = "sendFrag"
       THEN /\ BedrockFragmentTaken
            /\ sent' = Append(sent, wfrag)
            /\ bacc' = BedrockAccumulate(bacc, wfrag)
            /\ UNCHANGED <<bres, cpc>>
       ELSE /\ bres' = [returned |-> TRUE, resp |-> <<bacc>>, err |-> NilErr]
            /\ cpc' = "returned"
            /\ UNCHANGED <<workerVars, sent, bacc>>
    /\ UNCHANGED <<family, readerVars, cancelled, errsGot, ghostVars>>

\* Completion events without a stop reason.
DeltaUniverse ==
    { Ev(eventTypeCompletion, TxtHello), Ev(eventTypeCompletion, TxtWorld) }

\* The events of each of the MaxReads reads: deltas, and after the last of
\* them the event with the stop reason.
DeltaReads ==
    { [k \in 1..MaxReads |->
          IF k = MaxReads THEN Append(r[k], Ev(eventTypeCompletion, TxtStop)) ELSE r[k]] :
      r \in [1..MaxReads -> SeqsUpTo(DeltaUniverse, MaxChunkEvents)] }

\* The payloads of the events of all reads, each as a PayloadPart.
RECURSIVE PayloadsOf(_)
PayloadsOf(es) ==
    IF es = <<>> THEN <<>> ELSE <<PayloadPart(Head(es).Data)>> \o PayloadsOf(Tail(es))

RECURSIVE PayloadsOfReads(_)
PayloadsOfReads(reads) ==
    IF reads = <<>> THEN <<>>
    ELSE PayloadsOf(Head(reads)) \o PayloadsOfReads(Tail(reads))

\* The Client's call has returned; the Bedrock client's call starts.
RunBedrockBatch ==
    /\ family = "completion" /\ cpc = "returned"
    /\ StartRun([StartState("bedrock", "batch")
                    EXCEPT !.pending = PayloadsOfReads(pin), !.rpc = "open"])

SpecBedrockBatchInit ==
    /\ StreamStart("completion", "batch")
    /\ TwoIdle
    /\ pfun = "reads" /\ pin \in DeltaReads /\ ppc = "idle" /\ pout = <<>>
    /\ FrameIdle /\ RetryIdle

\* Both runs.  On these streams each worker returns after the event with the
\* stop reason, which is the last one: neither worker comes to receive from
\* a closed channel or to offer an error, and the Client's call returns on
\* the Response with the stop reason.
SpecBedrockBatchNext ==
    \/ family = "completion" /\ ReadData /\ UNCHANGED <<twoVars, stillVars>>
    \/ family = "completion" /\ nreads = MaxReads /\ ReadEOFFrom({<<>>})
           /\ UNCHANGED <<twoVars, stillVars>>
    \/ family = "completion" /\ RecvChunkFrom({pin[nreads]}, WholeReads)
           /\ UNCHANGED <<twoVars, stillVars>>
    \/ family = "completion" /\ HandleEvent /\ UNCHANGED <<twoVars, stillVars>>
    \/ family = "completion" /\ BatchRecvResp /\ UNCHANGED <<twoVars, stillVars>>
    \/ RunBedrockBatch /\ UNCHANGED stillVars
    \/ BedrockArrive /\ UNCHANGED <<twoVars, stillVars>>
    \/ BedrockStreamEnd({NilErr}) /\ UNCHANGED <<twoVars, stillVars>>
    \/ BedrockRecvEvent /\ UNCHANGED <<twoVars, stillVars>>
    \/ BedrockDefault /\ UNCHANGED <<twoVars, stillVars>>
    \/ BedrockCheckErr /\ UNCHANGED <<twoVars, stillVars>>
    \/ BedrockBatchRecvErr /\ UNCHANGED <<twoVars, stillVars>>
    \/ BedrockBatchRecvResp /\ UNCHANGED <<twoVars, stillVars>>

SpecBedrockBatch == SpecBedrockBatchInit /\ [][SpecBedrockBatchNext]_vars

(***************************************************************************)
(* Claims.                                                                 *)
(***************************************************************************)

RECURSIVE ConcatFragments(_)
ConcatFragments(fs) == IF fs = <<>> THEN "" ELSE Head(fs) \o ConcatFragments(Tail(fs))

RECURSIVE ConcatBlockTexts(_)
ConcatBlockTexts(blocks) ==
    IF blocks = <<>> THEN "" ELSE Head(blocks)[1].Text \o ConcatBlockTexts(Tail(blocks))

\* C1: for a message stream that begins with message_start and ends with
\* message_stop, once both channels are closed the block texts of the
\* Response, concatenated in block order, are the fragments the caller
\* received, concatenated in the order received.
C1_BlockTextsAreTheFragments ==
    (family = "message" /\ gshape = "closed" /\ BothClosed)
        => ConcatBlockTexts(resp.Content) = ConcatFragments(sent)

C1_Witness ==
    /\ family = "message" /\ gshape = "closed" /\ wpc = "done" /\ terminal
    /\ sent = <<"a", "b">>
    /\ ConcatBlockTexts(resp.Content) = "ab"

\* C2: framing is invariant to read granularity: a stream delivered in two
\* reads, cut at any byte offset, frames to the same events in the same order
\* as the stream delivered in one read.
C2_FramingInvariantToSplit ==
    fpc = "done" => fTwo = fOne

\* C3: after the caller cancels the context of a call in progress the worker
\* offers no new fragment, and when it returns the error channel has delivered
\* exactly one error, the context's cancellation error.
C3_CancelStopsTheStream ==
    [][ /\ (gmid /\ wpc # "sendFrag") => wpc' # "sendFrag"
        /\ (gmid /\ wpc # "done" /\ wpc' = "done") => errsGot' = <<CtxErr>> ]_vars

\* C4: with a caller that keeps receiving from both channels, both channels
\* are eventually closed, whichever way the worker exits.
C4_EventuallyBothClosed == <>[]BothClosed

C4_Witness ==
    /\ wpc = "done" /\ gmid /\ errsGot = <<CtxErr>>

\* C5: a caller that ranges over the fragment channel and only then over the
\* error channel always returns: it never ends up waiting, with the worker,
\* on a send that nobody will receive.
C5_RangeCallerReturns ==
    cpc = "returned" \/ wpc = "panic" \/ ENABLED SpecRangeNext

\* C6: a call ends either on a terminal event with nothing sent on the error
\* channel, or with exactly one error, a non-nil value, sent on it.
C6_OneTerminalSignal ==
    wpc = "done" =>
        \/ terminal /\ errsGot = <<>>
        \/ ~terminal /\ Len(errsGot) = 1 /\ errsGot[1] # NilErr

\* C7: once an error has been sent on the error channel, no further fragment
\* is sent and the Response does not change any more.
C7_NothingAfterAnError ==
    [][errsGot # <<>> => (sent' = sent /\ resp' = resp /\ errsGot' = errsGot)]_vars

C7_Witness ==
    /\ errsGot # <<>> /\ errsGot[1] = ErrBadEvent
    /\ wpc = "done" /\ evs # <<>> /\ nreads < MaxReads

\* C8: for a completion stream c1..cn in which only cn carries a stop reason,
\* wholly delivered by the transport, the batch call returns a Response whose
\* text is the concatenation of the texts of c1..cn and whose stop reason is
\* that of cn.
C8_BatchTextIsConcatenation ==
    (bres.returned /\ gshape = "closed" /\ gok /\ ~cancelled /\ pending = <<>>)
        => /\ bres.resp # <<>>
           /\ bres.resp[1].Completion = gtext
           /\ bres.resp[1].StopReason = <<"stop_sequence">>

\* C9: the batch call returns either a Response with a stop reason and a nil
\* error, or no Response and a non-nil error.
C9_BatchReturnsResponseOrError ==
    bres.returned =>
        \/ bres.resp # <<>> /\ bres.resp[1].StopReason # <<>> /\ bres.err = NilErr
        \/ bres.resp = <<>> /\ bres.err # NilErr

\* C10: Retryable is true exactly when the status code is at least 500, or is
\* 429, or the type is overloaded_error or rate_limit_error; 529 with
\* overloaded_error is retryable, 400 with invalid_request_error is not.
C10_RetryableExactly ==
    qpc = "done" =>
        /\ qResult = TRUE <=>
              \/ qErr.Err.Code \in {c \in RetryCodes : c >= 500}
              \/ qErr.Err.Code = 429
              \/ qErr.Err.Type \in {"overloaded_error", "rate_limit_error"}
        /\ (qErr.Err.Code = 529 /\ qErr.Err.Type = "overloaded_error") => qResult = TRUE
        /\ (qErr.Err.Code = 400 /\ qErr.Err.Type = "invalid_request_error") => qResult = FALSE

C10_Witness ==
    /\ qpc = "done"
    /\ qErr.Err.Code = 529
    /\ qErr.Err.Type = "overloaded_error"
    /\ qResult = TRUE
\* C11: after the context of a streaming call is cancelled the reader
\* goroutine eventually returns (which closes the response body): it does not
\* stay blocked forever.
C11_ReaderReturnsAfterCancel ==
    (cancelled /\ Running) ~> (rpc = "done" \/ ~Running)

\* C12: a worker blocked offering a fragment or an error to a caller that has
\* stopped receiving is released once the context is cancelled.
C12_CancelReleasesBlockedSend ==
    (cancelled /\ cpc = "stopped" /\ wpc \in {"sendFrag", "sendErr"})
        ~> (wpc \notin {"sendFrag", "sendErr"})

\* s is t with some of its elements left out, the others in the same order.
RECURSIVE IsSubseq(_, _)
IsSubseq(s, t) ==
    IF s = <<>> THEN TRUE
    ELSE IF t = <<>> THEN FALSE
    ELSE IF Head(s) = Head(t) THEN IsSubseq(Tail(s), Tail(t))
    ELSE IsSubseq(s, Tail(t))

\* C13: the fragments the caller has received are fragments of the events
\* written, in the order in which those events were written, within one read
\* and across reads.
C13_FragmentsInWireOrder == IsSubseq(sent, gfrags)

C13_Witness ==
    /\ family = "message" /\ nreads = 2
    /\ sent = <<"a", "b", "b">>
    /\ gfrags = <<"a", "b", "b">>

\* C14: a blocking call that receives a status outside 200..299 returns no
\* Response and a ResponseError whose Code is that status.
C14_Non2xxIsResponseError ==
    (ppc = "done" /\ pfun \in BlockingCalls /\ pin.status \notin 200..299)
        => /\ pout.resp = <<>>
           /\ pout.err.kind = "ResponseError"
           /\ pout.err.Err.Code = pin.status

\* C15: a chunk holding event text that does not match the pattern (its type
\* line or its data line missing) makes parseEvents fail with ErrBadEvent.
C15_MalformedTextIsBadEvent ==
    (ppc = "done" /\ pfun = "parseEvents"
        /\ \E n \in 1..Len(pin) : pin[n] \in MalformedTexts)
        => pout.err = "ErrBadEvent"

\* The event types the switch of each worker names.
RecognizedTypes(f) ==
    IF f = "message"
    THEN {eventTypeMessageStart, eventTypeMessageDelta, eventTypeMessageStop,
          eventTypeContentBlockStart, eventTypeContentBlockDelta,
          eventTypeContentBlockStop, eventTypeError, eventTypePing}
    ELSE {eventTypeCompletion, eventTypeError, eventTypePing}

\* C16: when the worker handles an event whose type its family does not
\* know, it offers ErrBadEvent on the error channel with the Response and the
\* fragments sent unchanged, and once that error is received it has returned.
C16_UnknownTypeIsBadEvent ==
    [][ /\ (wpc = "events" /\ Head(evs).Type \notin RecognizedTypes(family) /\ evs' # evs)
            => (wpc' = "sendErr" /\ werr' = ErrBadEvent /\ resp' = resp /\ sent' = sent)
        /\ (wpc = "sendErr" /\ werr = ErrBadEvent /\ wpc' # wpc)
            => (wpc' = "done" /\ errsGot' = <<ErrBadEvent>> /\ resp' = resp /\ sent' = sent)
      ]_vars

C16_Witness ==
    /\ family = "completion" /\ wpc = "done"
    /\ errsGot = <<ErrBadEvent>>
    /\ Len(sent) = 1 /\ evs # <<>>

\* What a call shows of the events of its own stream alone: the fragments
\* received are fragments of its own events in their order, the block texts
\* of its Response are the fragments it has produced, and the errors received
\* are errors its own stream can bring about.
OwnErrors(id) == IF id = 1 THEN {NilErr} ELSE {NilErr, ErrBadEvent}

OwnOnly(id, c) ==
    /\ IsSubseq(c.sent, c.gfrags)
    /\ (c.wpc # "panic" /\ \A n \in 1..Len(c.resp.Content) : c.resp.Content[n] # <<>>)
        => ConcatBlockTexts(c.resp.Content)
             = ConcatFragments(c.sent) \o (IF c.wpc = "sendFrag" THEN c.wfrag ELSE "")
    /\ \A n \in 1..Len(c.errsGot) : c.errsGot[n] \in OwnErrors(id)

\* C17: with two streaming calls running at the same time, under every
\* interleaving of their steps, the Response, the fragments and the errors of
\* each call come from the events of its own stream only.
C17_CallsShareNoState ==
    other # <<>> => OwnOnly(focus, CallState) /\ OwnOnly(3 - focus, other)

C17_Witness ==
    /\ other # <<>> /\ focus = 1
    /\ wpc = "done" /\ sent = <<"a", "b">> /\ ConcatBlockTexts(resp.Content) = "ab"
    /\ errsGot = <<NilErr>>
    /\ other.wpc = "done" /\ other.sent = <<"">> /\ other.errsGot = <<ErrBadEvent>>
    /\ other.resp.Content = <<<<[Text |-> ""]>>>>

\* A system message at an index other than the first.
MisplacedSystem(m) == \E n \in 2..Len(m) : m[n].UserType = UserTypeSystem

\* C18: Validate returns ErrEmptyMessages for an empty slice; otherwise
\* ErrBadSystemMessage when a system message stands at an index other than 0
\* (whatever the last message is: that check can only fail at the last index,
\* and at an equal index the system check comes first); otherwise
\* ErrMissingAssistant when the last message is not the assistant's; otherwise
\* nil.
C18_ValidateOutcome ==
    (pfun = "Validate" /\ ppc = "done")
        => pout.err = IF pin = <<>> THEN ErrEmptyMessages
                      ELSE IF MisplacedSystem(pin) THEN ErrBadSystemMessage
                      ELSE IF pin[Len(pin)].UserType # UserTypeAssistant
                           THEN ErrMissingAssistant
                      ELSE NilErr

C18_Witness ==
    /\ pfun = "Validate" /\ ppc = "done"
    /\ pin = <<[UserType |-> UserTypeHuman, Text |-> "Hi"],
               [UserType |-> UserTypeSystem, Text |-> "Hello!"]>>
    /\ pout.err = ErrBadSystemMessage

\* A message as the prompt shows it.
Rendered(m) ==
    CASE m.UserType = UserTypeSystem -> m.Text
      [] OTHER -> m.UserType \o ": " \o m.Text

RECURSIVE RenderedAll(_)
RenderedAll(ms) ==
    IF ms = <<>> THEN "" ELSE RenderedAll(SubSeq(ms, 1, Len(ms) - 1)) \o Rendered(ms[Len(ms)])

\* C19: NewPromptFromMessages returns the messages rendered one after the
\* other with nothing between them, a system message as its Text alone and
\* any other as "<UserType>: <Text>"; and the prompt of a sequence is the
\* prompt of any prefix followed by the prompt of the rest.
C19_PromptIsConcatenation ==
    (pfun = "NewPromptFromMessages" /\ ppc = "done")
        => /\ pout.prompt = RenderedAll(pin)
           /\ \A k \in 0..Len(pin) :
                pout.prompt = NewPromptFromMessages(SubSeq(pin, 1, k))
                                \o NewPromptFromMessages(SubSeq(pin, k + 1, Len(pin)))

C19_Witness ==
    /\ pfun = "NewPromptFromMessages" /\ ppc = "done"
    /\ pin = <<[UserType |-> UserTypeSystem, Text |-> "Hi"],
               [UserType |-> UserTypeHuman, Text |-> "Hello!"],
               [UserType |-> UserTypeAssistant, Text |-> "Hi"]>>
    /\ pout.prompt = "Hi\n\nHuman: Hello!\n\nAssistant: Hi"

\* C20: for every Model value m a package declares, UnknownModel among them,
\* unmarshalling the text MarshalText gave for m yields m with no error; and
\* unmarshalling a text that is not a model name of the package yields
\* UnknownModel with no error.
C20_ModelTextRoundTrips ==
    /\ (pfun = "MarshalText" /\ ppc = "done" /\ pin.model \in DefinedModels(pin.pkg))
          => pout.model = pin.model /\ pout.err = NilErr
    /\ (pfun = "UnmarshalText" /\ ppc = "done"
          /\ \A c \in DOMAIN completionToString(pin.pkg) :
                completionToString(pin.pkg)[c] # pin.text)
          => pout.model = UnknownModel /\ pout.err = NilErr

C20_Witness ==
    /\ pfun = "MarshalText" /\ ppc = "done"
    /\ pin = [pkg |-> "v3", model |-> 13]
    /\ pout.model = 13

\* The worker is handling an event of type t in this step.
Handling(t) == wpc = "events" /\ Head(evs).Type = t /\ evs' # evs

\* The index a content_block_delta or content_block_start payload names.
IndexOf(e) == UnmarshalV3Event(ParseJSON(e.Data)).Index

\* C21: a content_block_delta whose index is not that of the latest block of
\* the Response is answered with an error on the error channel; the Response
\* is left as it is and no fragment is offered.
C21_DeltaForAnotherIndexRejected ==
    [][ (/\ Handling(eventTypeContentBlockDelta)
         /\ ParseJSON(Head(evs).Data).valid
         /\ resp.Content # <<>>
         /\ IndexOf(Head(evs)) # Len(resp.Content) - 1)
            => (wpc' = "sendErr" /\ resp' = resp)
      ]_vars

\* C22: handling a message_delta event leaves the block list of the Response
\* and the text of every block as they were, changes no field other than
\* the stop reason, the stop sequence and the usage, and offers no fragment.
C22_MessageDeltaKeepsBlocks ==
    [][ Handling(eventTypeMessageDelta)
            => /\ resp'.Content = resp.Content
               /\ resp'.ID = resp.ID
               /\ wpc' # "sendFrag" /\ sent' = sent /\ wfrag' = wfrag
      ]_vars

\* A message_delta with a stop reason has been handled after a block and a
\* delta for it.
C22_Witness ==
    /\ family = "message"
    /\ resp.StopReason = <<"end_turn">>
    /\ resp.Content = << <<[Text |-> "ab"]>> >>
    /\ sent = <<"a", "b">>

\* C23: the step that handles message_stop in a message stream, and the step
\* in which the fragment of a completion event with a stop reason is taken,
\* leave the worker returned, both channels closed; and once it has returned
\* on the terminal event the events left of the read stay unhandled, nothing
\* more is sent on either channel and the Response stays as it is.
C23_NothingAfterTheTerminalEvent ==
    [][ /\ (family = "message" /\ Handling(eventTypeMessageStop))
            => (wpc' = "done" /\ sent' = sent /\ errsGot' = errsGot /\ resp' = resp)
        /\ (family = "completion" /\ wpc = "sendFrag" /\ wfrag.StopReason # <<>>
                /\ wpc' # wpc)
            => (wpc' = "done" /\ errsGot' = errsGot)
        /\ (wpc = "done" /\ terminal)
            => (wpc' = "done" /\ evs' = evs /\ sent' = sent /\ errsGot' = errsGot
                    /\ resp' = resp /\ werr' = werr)
      ]_vars

\* A completion worker returned on a stop reason with an event of the same
\* read left, and the reader went on.
C23_Witness ==
    /\ family = "completion" /\ terminal /\ wpc = "done"
    /\ evs # <<>> /\ errsGot = <<>>
    /\ Len(sent) = 1 /\ sent[1].StopReason = <<"stop_sequence">>
    /\ rpc = "sendMsg"

\* C24: once the stop reason of the message Response is non-null no step
\* changes any field of the Response (so the stop reason stays non-null).
C24_ResponseFrozenAfterStopReason ==
    [][ (family = "message" /\ resp.StopReason # <<>>) => resp' = resp ]_vars

\* C25: a content_block_delta handled when the block opened last has had its
\* content_block_stop, and no block was opened since, is answered with an
\* error on the error channel, the Response left as it is and no fragment
\* offered.
C25_DeltaAfterBlockStopRejected ==
    [][ (/\ Handling(eventTypeContentBlockDelta)
         /\ ParseJSON(Head(evs).Data).valid
         /\ resp.Content # <<>> /\ gclosed)
            => (wpc' = "sendErr" /\ resp' = resp)
      ]_vars

\* C26: the step that handles an error event offers on the error channel the
\* ResponseError with the type and message of the payload when the payload
\* is JSON, and an error holding the payload as it came when it is not, with
\* the Response and the fragments unchanged; the step that delivers that
\* error leaves the worker returned with this one error received; and no
\* fragment is received after it.
C26_ErrorEventEndsTheStream ==
    [][ /\ Handling(eventTypeError)
            => /\ wpc' = "sendErr" /\ resp' = resp /\ sent' = sent
               /\ IF ParseJSON(Head(evs).Data).valid
                  THEN /\ werr'.kind = "ResponseError"
                       /\ ParseJSON(Head(evs).Data).error # <<>>
                            => /\ werr'.Err.Type = ParseJSON(Head(evs).Data).error[1].type
                               /\ werr'.Err.Message = ParseJSON(Head(evs).Data).error[1].message
                  ELSE werr'.kind = "errors.New" /\ werr'.raw = Head(evs).Data
        /\ (wpc = "sendErr" /\ werr.kind \in {"ResponseError", "errors.New"} /\ wpc' # wpc)
            => (wpc' = "done" /\ errsGot' = <<werr>> /\ resp' = resp /\ sent' = sent)
        /\ (errsGot # <<>> /\ errsGot[1].kind \in {"ResponseError", "errors.New"})
            => (sent' = sent /\ errsGot' = errsGot)
      ]_vars

\* A message worker returned on an error event that decodes, after a
\* fragment, with an event of the same read left.
C26_Witness ==
    /\ family = "message" /\ wpc = "done" /\ ~terminal
    /\ errsGot = <<[MkErr("ResponseError", "overloaded_error", "x", <<>>) EXCEPT !.Err.Code = 0]>>
    /\ sent = <<"a">> /\ evs # <<>>

\* The payload of e cannot be decoded into what the worker decodes it into:
\* it is not JSON, or it is meant for a Response and holds a usage that is
\* not one.
FailsToDecode(e) ==
    \/ ~ParseJSON(e.Data).valid
    \/ /\ e.Type \in {eventTypeMessageStart, eventTypeMessageDelta}
       /\ ParseJSON(e.Data).usage_bad

\* C27: the step that handles an event of a type that carries a payload the
\* worker decodes, the payload failing to decode, offers the decode error on
\* the error channel and no fragment, and leaves the Response, the text of
\* every block with it, as it was; the step that delivers the error leaves
\* the worker returned.
C27_DecodeErrorStopsTheWorker ==
    [][ /\ (/\ wpc = "events" /\ evs' # evs
            /\ Head(evs).Type \in (IF family = "message"
                                   THEN {eventTypeMessageStart, eventTypeMessageDelta,
                                         eventTypeContentBlockStart,
                                         eventTypeContentBlockDelta}
                                   ELSE {eventTypeCompletion})
            /\ FailsToDecode(Head(evs)))
            => (wpc' = "sendErr" /\ werr' = JSONErr /\ resp' = resp /\ sent' = sent)
        /\ (wpc = "sendErr" /\ werr = JSONErr /\ wpc' # wpc)
            => (wpc' = "done" /\ sent' = sent /\ resp' = resp)
      ]_vars

\* C28: the step that handles a message_start whose payload decodes, as the
\* first event of the stream, leaves the Response with an empty block list and
\* offers no error; handled when the Response already holds something, it
\* leaves the Response as it is.
C28_MessageStartOnlyFirst ==
    [][ (family = "message" /\ Handling(eventTypeMessageStart)
            /\ ~FailsToDecode(Head(evs)))
            => IF resp = ZeroV3Response
               THEN resp'.Content = <<>> /\ wpc' # "sendErr"
               ELSE resp' = resp
      ]_vars

\* The block a content_block_start payload carries.
BlockOf(e) == UnmarshalV3Event(ParseJSON(e.Data)).ContentBlock

\* C29: the step that handles a content_block_start whose payload carries a
\* block leaves the block list as it was with that one block added at its
\* end, and offers the block's text as a fragment exactly when the text is
\* not empty.
C29_BlockStartAppendsOneBlock ==
    [][ (/\ family = "message" /\ Handling(eventTypeContentBlockStart)
         /\ ParseJSON(Head(evs).Data).valid
         /\ BlockOf(Head(evs)) # <<>>)
            => /\ resp'.Content = Append(resp.Content, BlockOf(Head(evs)))
               /\ (wpc' = "sendFrag") <=> (BlockOf(Head(evs))[1].Text # "")
               /\ wpc' = "sendFrag" => wfrag' = BlockOf(Head(evs))[1].Text
      ]_vars

\* C30: the step that handles a ping, in either family, changes neither the
\* Response nor the fragments and errors sent or about to be sent, and leaves
\* the worker at the next event of the read, or back at its select when the
\* ping was the last one.
C30_PingIsNoOp ==
    [][ Handling(eventTypePing)
            => /\ resp' = resp /\ sent' = sent /\ errsGot' = errsGot
               /\ werr' = werr /\ wfrag' = wfrag /\ terminal' = terminal
               /\ evs' = Tail(evs)
               /\ wpc' = IF Tail(evs) = <<>> THEN "select" ELSE "events"
      ]_vars

\* A completion worker back at its select after a read that held a ping and
\* a completion event, the fragment received and no error.
C30_Witness ==
    /\ family = "completion" /\ nreads = 1 /\ pending = <<>>
    /\ wpc = "select" /\ evs = <<>> /\ rpc = "read"
    /\ gshape = "invalid" /\ gok /\ ~cancelled
    /\ Len(sent) = 1 /\ sent[1].Completion = "Hello" /\ Len(gfrags) = 1
    /\ errsGot = <<>>

\* C31: over the same reads the call of NewStreamingShortHandMessageRequest
\* ends as the call of NewStreamingMessageRequest ended: the caller received
\* the same fragments in the same order and the same errors, the worker ended
\* the same way, and the Response is the same.
C31_ShortHandRunsTheSameInterpreter ==
    (focus = 2 /\ CallEnded)
        => /\ sent = other.sent
           /\ errsGot = other.errsGot
           /\ resp = other.resp
           /\ wpc = other.wpc

C31_Witness ==
    /\ focus = 2 /\ family = "shorthand" /\ wpc = "done" /\ terminal
    /\ sent = <<"a", "b">> /\ other.sent = <<"a", "b">>
    /\ resp.StopReason # <<>>

\* C32: while the worker of a message call runs, the block texts of the
\* Response, concatenated, are the fragments the caller has received,
\* concatenated, followed by nothing, or by the one fragment the worker is
\* offering: the Response is never behind the caller and at most that
\* fragment ahead.
C32_ResponseNeverBehindTheCaller ==
    (family = "message" /\ ~CallEnded)
        => LET got == ConcatFragments(sent)
               have == ConcatBlockTexts(resp.Content)
           IN  \/ have = got
               \/ wpc = "sendFrag" /\ have = got \o wfrag

\* C33: whatever recognized events a message stream carries, a
\* content_block_delta before any content_block_start and a block start or
\* delta whose payload lacks its object included, the worker never faults:
\* it goes on, returns, or offers an error.
C33_MessageWorkerNeverFaults ==
    family = "message" => wpc # "panic"

\* C34: every value a worker offers on its error channel is an error, not
\* nil, also when the body ends before a terminal event and the reader has
\* closed its channels.
C34_ErrorsOfferedAreNotNil ==
    wpc = "sendErr" => werr # NilErr

\* The events of es, written from byte start of the stream on, whose text
\* from "event: " to the newline that ends the payload lies inside the first
\* read (the bytes up to fsplit) or inside the second.
RECURSIVE InsideOneRead(_, _)
InsideOneRead(es, start) ==
    IF es = <<>> THEN <<>>
    ELSE LET size == Len(Wire(Head(es).Type, Head(es).Data))
             last == start + size - 2
         IN  (IF last <= fsplit \/ start > fsplit THEN <<Head(es)>> ELSE <<>>)
                 \o InsideOneRead(Tail(es), start + size)

\* C35: the events the framer produces from two reads of at most bufferSize
\* bytes are the events written that lie inside one of the reads, in order:
\* an event longer than the buffer or lying across the two reads is not
\* produced, and the framer reports no error for it.
C35_EventsLieInsideOneRead ==
    fpc = "done"
        => /\ fsplit <= bufferSize /\ Len(fstream) - fsplit <= bufferSize
           /\ fTwo.err = "nil"
           /\ fTwo.events = InsideOneRead(fOne.events, 1)

C35_Witness ==
    /\ fpc = "done" /\ Len(fstream) > bufferSize
    /\ Len(fOne.events) = 2
    /\ fTwo = [events |-> <<[Type |-> eventTypePing, Data |-> TxtEmptyObject]>>,
               err |-> "nil"]

\* C36: a call of the Bedrock client leaves the Model of the caller's
\* Request as it found it, so every call made with one Request finds the
\* Model the first call found and is dispatched to the same model id.
C36_BedrockLeavesRequestModel ==
    pfun = "bedrock"
        => \A i \in 1..Len(pout) :
              /\ pin.Model = pout[i].m
              /\ pout[i].ModelId = pout[1].ModelId

\* C38: with a caller that keeps receiving, the worker of the Bedrock client
\* returns and its two channels are closed, however its event stream ends:
\* with a payload that has a stop reason, with an error, or closed with
\* neither.
C38_BedrockWorkerTerminates ==
    (family = "bedrock") ~> (wpc = "done")

\* C37: over the same completion deltas, the last with a stop reason, the
\* batch call of the Bedrock client returns what the batch call of the
\* Client returned: a Response with the same completion text and the same
\* stop reason, and no error.
C37_BedrockBatchEqualsClientBatch ==
    (family = "bedrock" /\ cpc = "returned")
        => /\ bres.err = other.bres.err
           /\ bres.resp # <<>> /\ other.bres.resp # <<>>
           /\ bres.resp[1].Completion = other.bres.resp[1].Completion
           /\ bres.resp[1].StopReason = other.bres.resp[1].StopReason

====
